---- MODULE Spec2Model ----
(***************************************************************************)
(* A model of the single-cell expression module of dictyexpress-js:        *)
(*   - dataLoader.ts: the strain-scoped loader with its IndexedDB cache    *)
(*     and its shared zarr handles (specification Spec for single loads,   *)
(*     SpecBatch for loadMultipleGenesExpression, SpecCache for clearCache *)
(*     and getCacheStats beside loads, SpecStrains for the strain          *)
(*     manifest, SpecPure for aggregateGeneExpression and                  *)
(*     transformExpression);                                               *)
(*   - singleCellExpressions.tsx: the gene-expression effect of the        *)
(*     component with its request fencing (specification SpecView) and     *)
(*     its loadInitialData effect with the strain select (SpecInitial);    *)
(*   - the UmapPlot component: its view transform and hover under pointer  *)
(*     and wheel events (specification SpecPlot), its categorical color    *)
(*     caches (SpecColors), its color and legend effects (SpecLegend) and  *)
(*     its tooltip (SpecTooltip).                                          *)
(*                                                                         *)
(* JavaScript runs one task at a time.  An action of this model is one     *)
(* task: an I/O completion (or a call) together with the whole chain of    *)
(* promise continuations it triggers, up to the next I/O request.          *)
(*                                                                         *)
(* IndexedDB runs the transactions of one object store in the order of     *)
(* their creation whenever one of them is readwrite, so the effect of a    *)
(* request (the value a get reads, the entry a put stores) is taken at     *)
(* the moment the request is made; its event is delivered later.           *)
(***************************************************************************)
EXTENDS Integers, Sequences, FiniteSets, TLC

\* ------------------------------------------------------------------ bounds
\* Number of loadGeneExpression invocations that can be in flight together.
MaxCalls == 1
\* Number of loadGeneExpression invocations of a run.
MaxLoads == 2
\* Cells per expression row.
NCells == 2
\* Number of runs of the gene-expression effect of the component.
MaxRuns == 3

\* ------------------------------------------------------------ data domains
Strains == {"AX4", "DH1"}
Genes == {0, 1}
CallIds == 1 .. MaxLoads

StrainNo(s) == IF s = "AX4" THEN 1 ELSE 2

\* Row g of the remote expression array of strain s (genes x cells).
Row(s, g) == [i \in 1 .. NCells |-> 10 * StrainNo(s) + 2 * g + (i - 1)]

\* An optional vector: a cache slot, a lookup result.
NoEntry == [has |-> FALSE, vec |-> <<>>]
Some(v) == [has |-> TRUE, vec |-> v]

Keys == Strains \X Genes

\* --------------------------------------------------- payloads and decoding
\* A value as the zarr client returns it: a number or a (nested) list.
Num(n) == [t |-> "num", v |-> n, xs |-> <<>>]
Arr(xs) == [t |-> "arr", v |-> 0, xs |-> xs]

RECURSIVE flat(_)
\* Array.prototype.flat(Infinity) on a nested list.
flat(x) ==
    IF x.t = "num" THEN <<x.v>>
    ELSE IF Len(x.xs) = 0 THEN <<>>
    ELSE flat(x.xs[1]) \o flat(Arr(Tail(x.xs)))

\* The list of numbers of a vector, as a nested value.
AsArr(v) == Arr([i \in 1 .. Len(v) |-> Num(v[i])])

\* The shapes zarrArray.get([geneIndex, null]) can resolve with.
Shapes == {"scalar", "wrappedTyped", "bareTyped", "plainFlat", "plainNested",
           "wrappedPlain", "wrappedPlainNested", "wrappedOther", "otherObject"}

\* The payload of shape sh carrying row v.
\*   kind "number": typeof data === 'number'
\*   kind "f32": a Float32Array; kind "array": a plain Array;
\*   kind "object": any other object, with or without a data property.
Payload(sh, v) ==
    CASE sh = "scalar" -> [kind |-> "number", hasData |-> FALSE, dataKind |-> "none", body |-> Num(v[1])]
      [] sh = "wrappedTyped" -> [kind |-> "object", hasData |-> TRUE, dataKind |-> "f32", body |-> AsArr(v)]
      [] sh = "bareTyped" -> [kind |-> "f32", hasData |-> FALSE, dataKind |-> "none", body |-> AsArr(v)]
      [] sh = "plainFlat" -> [kind |-> "array", hasData |-> FALSE, dataKind |-> "none", body |-> AsArr(v)]
      [] sh = "plainNested" -> [kind |-> "array", hasData |-> FALSE, dataKind |-> "none", body |-> Arr(<<AsArr(v)>>)]
      [] sh = "wrappedPlain" -> [kind |-> "object", hasData |-> TRUE, dataKind |-> "array", body |-> AsArr(v)]
      [] sh = "wrappedPlainNested" -> [kind |-> "object", hasData |-> TRUE, dataKind |-> "array", body |-> Arr(<<AsArr(v)>>)]
      [] sh = "wrappedOther" -> [kind |-> "object", hasData |-> TRUE, dataKind |-> "other", body |-> AsArr(v)]
      [] OTHER -> [kind |-> "object", hasData |-> FALSE, dataKind |-> "none", body |-> AsArr(v)]

\* A decoder that accepts every payload (a missing else-throw).
decodeLenient(p) ==
    IF p.kind = "number" THEN [ok |-> TRUE, vec |-> <<>>]
    ELSE [ok |-> TRUE, vec |-> flat(p.body)]

\* A decoder that keeps the nesting of a plain array (flat() without depth).
decodeShallow(p) ==
    IF p.kind = "number" THEN [ok |-> FALSE, vec |-> <<>>]
    ELSE IF p.kind = "object" /\ p.hasData /\ p.dataKind = "f32" THEN [ok |-> TRUE, vec |-> flat(p.body)]
    ELSE IF p.kind = "f32" THEN [ok |-> TRUE, vec |-> flat(p.body)]
    ELSE IF p.kind = "array" THEN [ok |-> TRUE, vec |-> [i \in 1 .. Len(p.body.xs) |-> p.body.xs[i].v]]
    ELSE IF p.kind = "object" /\ p.hasData /\ p.dataKind = "array" THEN [ok |-> TRUE, vec |-> flat(p.body)]
    ELSE [ok |-> FALSE, vec |-> <<>>]

\* The typedData of loadGeneExpression, or the TypeError it throws.
decode(p) ==
    IF p.kind = "number" THEN [ok |-> FALSE, vec |-> <<>>]
    ELSE IF p.kind = "object" /\ p.hasData /\ p.dataKind = "f32" THEN [ok |-> TRUE, vec |-> flat(p.body)]
    ELSE IF p.kind = "f32" THEN [ok |-> TRUE, vec |-> flat(p.body)]
    ELSE IF p.kind = "array" THEN [ok |-> TRUE, vec |-> flat(p.body)]
    ELSE IF p.kind = "object" /\ p.hasData /\ p.dataKind = "array" THEN [ok |-> TRUE, vec |-> flat(p.body)]
    ELSE [ok |-> FALSE, vec |-> <<>>]

\* Array.from(typedArray) / new Float32Array(array): an elementwise copy.  The
\* values of this model are integers below 2^24, which float32 holds exactly.
ArrayFrom(v) == [i \in 1 .. Len(v) |-> v[i]]
Float32ArrayOf(a) == [i \in 1 .. Len(a) |-> a[i]]

\* ------------------------------------------------------------------- state
VARIABLES
    currentStrain,            \* dataLoader.ts: let currentStrain
    expressionStoreInstance,  \* the strain whose URL the HTTPStore holds, or "none"
    expressionArrayInstance,  \* the strain whose array the handle reads, or "none"
    dbInstance,               \* TRUE once indexedDB.open has succeeded
    cacheStore,               \* the object store: key (strain, gene) -> entry
    calls,                    \* the loadGeneExpression invocations
    lastReturned,             \* history: the invocation that returned last, or 0
    batch,                    \* the loadMultipleGenesExpression invocation
    view,                     \* the SingleCellExpressions component
    admin,                    \* the clearCache and getCacheStats invocations
    manifest,                 \* the listAvailableStrains invocation
    pure,                     \* the calls of the pure vector functions
    plot                      \* the UmapPlot component

\* The state outside the loader and the SingleCellExpressions component.
others == <<admin, manifest, pure, plot>>

vars == <<currentStrain, expressionStoreInstance, expressionArrayInstance,
          dbInstance, cacheStore, calls, lastReturned, batch, view, others>>

\* One invocation of loadGeneExpression, or of getCachedGeneExpression alone.
\*   role: "direct" (loadGeneExpression called by the application), "child"
\*       (called by loadMultipleGenesExpression), "probe" (a cache check of
\*       loadMultipleGenesExpression: getCachedGeneExpression only)
\*   pc: "free", "initCache" (getCachedGeneExpression awaits initCache),
\*       "get" (store.get in flight), "openArray" (openArray in flight),
\*       "zarrGet" (zarrArray.get in flight), "resolved", "rejected",
\*       "gone" (returned, its record dropped)
\*   opening: initCache has requested indexedDB.open
\*   key: the strain of the cache key of the lookup; got: what the get reads
\*   h: the strain of the store handed to openArray / of the array being read
\*   source: where a resolved value comes from: "cache", "net", or "miss" (the
\*       null of a probe)
\*   w: the setCachedGeneExpression it started: "none", "initCache" (awaits
\*      initCache), "stored" (put made), "dropped" (failed, silently)
\* History, read by the properties only:
\*   atKey: the strain current when the lookup was keyed; held: the entry the
\*      store held for (atKey, gene) at that moment, emptied when the read of
\*      the lookup fails
\*   atPut: the strain current when the write was keyed; fault: the storage
\*      failed the write
\*   seq: the invocation was called right after an invocation of the same gene
\*      had returned its fetched row, the storage working, the strain is the
\*      one it was then and no other invocation has been made since; prev: that
\*      row
FreeCall ==
    [pc |-> "free", role |-> "direct", gene |-> 0, opening |-> FALSE, key |-> "none",
     got |-> NoEntry, h |-> "none", result |-> NoEntry,
     source |-> "none", err |-> "none", w |-> "none",
     atKey |-> "none", held |-> NoEntry, atPut |-> "none", fault |-> FALSE,
     seq |-> FALSE, prev |-> NoEntry]
GoneCall == [FreeCall EXCEPT !.pc = "gone"]

\* One invocation of loadMultipleGenesExpression.
\*   pc: "free", "lookups" (awaits the cache checks), "children" (awaits the
\*       loads of the uncached indices), "resolved", "rejected"
\*   idx: geneIndices; un: uncachedIndices; data: results; failed: failedGenes
\*   probe i is invocation i of calls, the load of un[j] is invocation j
\* History, read by the properties only:
\*   cachedAt: the genes cached under the current strain when it was called
\*   why: how the load of each uncached index ended: "cache" (served from the
\*       cache), "net" (fetched), or the failure: "openArray", "fetch",
\*       "decode", "cache-error"
\*   quiet: no storage failure and no strain switch since it was called
FreeBatch ==
    [pc |-> "free", idx |-> <<>>, un |-> <<>>, data |-> [g \in Genes |-> NoEntry],
     failed |-> <<>>, cachedAt |-> {}, why |-> <<>>, quiet |-> TRUE]

Returned(c) == calls[c].pc \in {"resolved", "rejected"}
InFlight(c) ==
    \/ calls[c].pc \in {"initCache", "get", "openArray", "zarrGet"}
    \/ calls[c].w = "initCache"
FreeIds == {c \in CallIds : calls[c].pc = "free"}
\* Invocations take the records in order.
NextId == CHOOSE c \in FreeIds : \A d \in FreeIds : c <= d
Running == batch.pc \in {"lookups", "children"}

\* The records once invocation c has returned (or its write has settled) as r:
\* the record of a returned direct invocation is kept until the next one
\* returns; those of a batch are kept until the batch has read them.
Ret(c, r) ==
    IF r.role /= "direct" THEN [calls EXCEPT ![c] = IF Running THEN r ELSE FreeCall]
    ELSE [d \in CallIds |-> IF d = c THEN r
                            ELSE IF InFlight(d) \/ calls[d].pc = "free" THEN calls[d]
                            ELSE GoneCall]

\* What is kept of an invocation that has returned.
Rejected(r, e) ==
    [FreeCall EXCEPT !.pc = "rejected", !.role = r.role, !.gene = r.gene, !.err = e]
Resolved(r, src, v) ==
    [FreeCall EXCEPT !.pc = "resolved", !.role = r.role, !.gene = r.gene,
                     !.source = src, !.result = Some(v), !.h = r.h, !.held = r.held,
                     !.seq = r.seq, !.prev = r.prev]
\* The null a probe resolves with.
ProbeMiss(r) ==
    [FreeCall EXCEPT !.pc = "resolved", !.role = r.role, !.gene = r.gene,
                     !.source = "miss"]
\* History: the invocation that returned last, for direct invocations.
Last(c) == IF calls[c].role = "direct" THEN c ELSE lastReturned

\* History: a lookup not yet keyed when the strain changes is no longer a
\* lookup under the strain of its call.
Unsequenced(strain) ==
    [c \in CallIds |->
        IF calls[c].pc = "initCache" /\ strain /= currentStrain
        THEN [calls[c] EXCEPT !.seq = FALSE, !.prev = NoEntry] ELSE calls[c]]

\* History: the batch in progress, disturbed or not.
Noted(q) == IF Running THEN [batch EXCEPT !.quiet = batch.quiet /\ q] ELSE batch

\* ------------------------------------------- loadMultipleGenesExpression
RECURSIVE Sorted(_)
\* The elements of a set of positions, in increasing order.
Sorted(S) ==
    IF S = {} THEN <<>>
    ELSE LET m == CHOOSE x \in S : \A y \in S : x <= y
         IN <<m>> \o Sorted(S \ {m})
Last1(S) == CHOOSE x \in S : \A y \in S : y <= x

\* The continuation of loadMultipleGenesExpression in the task where the
\* records of its invocations have become cs.
\*  - all the cache checks done: the hits go to results, the others to
\*    uncachedIndices; with none uncached it returns, else it calls
\*    loadGeneExpression for each, which runs to its `await initCache()`;
\*  - all the loads done: results and failedGenes are completed; it throws when
\*    every uncached index failed, else returns.
Settle(cs, q) ==
    LET b == Noted(q)
        n == Len(batch.idx)
        m == Len(batch.un)
    IN IF batch.pc = "lookups" /\ \A i \in 1 .. n : cs[i].pc = "resolved"
       THEN LET miss == Sorted({i \in 1 .. n : cs[i].source = "miss"})
                un == [j \in 1 .. Len(miss) |-> batch.idx[miss[j]]]
                data == [g \in Genes |->
                           LET H == {i \in 1 .. n : cs[i].source = "cache" /\ batch.idx[i] = g}
                           IN IF H = {} THEN NoEntry ELSE cs[Last1(H)].result]
            IN IF un = <<>>
               THEN /\ batch' = [b EXCEPT !.pc = "resolved", !.data = data]
                    /\ calls' = [c \in CallIds |-> FreeCall]
               ELSE /\ batch' = [b EXCEPT !.pc = "children", !.un = un, !.data = data]
                    /\ calls' = [c \in CallIds |->
                                   IF c <= Len(un)
                                   THEN [FreeCall EXCEPT !.pc = "initCache", !.role = "child",
                                            !.gene = un[c], !.opening = (~dbInstance)]
                                   ELSE FreeCall]
       ELSE IF batch.pc = "children" /\ \A j \in 1 .. m : cs[j].pc \in {"resolved", "rejected"}
       THEN LET bad == Sorted({j \in 1 .. m : cs[j].pc = "rejected"})
                failed == [k \in 1 .. Len(bad) |-> batch.un[bad[k]]]
                data == [g \in Genes |->
                           LET K == {j \in 1 .. m : cs[j].pc = "resolved" /\ batch.un[j] = g}
                           IN IF K = {} THEN batch.data[g] ELSE cs[Last1(K)].result]
                why == [j \in 1 .. m |->
                           IF cs[j].pc = "resolved" THEN cs[j].source
                           ELSE IF cs[j].err = "cache" THEN "cache-error" ELSE cs[j].err]
            IN /\ batch' = [b EXCEPT !.pc = IF Len(failed) = m THEN "rejected" ELSE "resolved",
                                     !.data = data, !.failed = failed, !.why = why]
               /\ calls' = [c \in CallIds |-> IF cs[c].w = "initCache" THEN cs[c]
                                              ELSE FreeCall]
       ELSE /\ batch' = b
            /\ calls' = cs

\* loadMultipleGenesExpression(geneIndices) is called, nothing else being in
\* flight: every cache check runs to its `await initCache()`.
loadMultipleGenesExpression(geneIndices) ==
    /\ ~Running
    /\ \A c \in CallIds : ~InFlight(c)
    /\ Len(geneIndices) <= MaxLoads
    /\ LET b == [FreeBatch EXCEPT !.idx = geneIndices,
                    !.cachedAt = {g \in Genes : cacheStore[<<currentStrain, g>>].has}]
       IN IF geneIndices = <<>>
          THEN /\ batch' = [b EXCEPT !.pc = "resolved"]
               /\ calls' = [c \in CallIds |-> FreeCall]
          ELSE /\ batch' = [b EXCEPT !.pc = "lookups"]
               /\ calls' = [c \in CallIds |->
                              IF c <= Len(geneIndices)
                              THEN [FreeCall EXCEPT !.pc = "initCache", !.role = "probe",
                                       !.gene = geneIndices[c], !.opening = (~dbInstance)]
                              ELSE FreeCall]
    /\ lastReturned' = 0
    /\ UNCHANGED <<currentStrain, expressionStoreInstance, expressionArrayInstance,
                   dbInstance, cacheStore, view, others>>

\* ------------------------------------------------------------- setStrain
\* setStrain without its guard: the handles are reset on every call.
setStrainAlways(strain) ==
    /\ currentStrain' = strain
    /\ expressionStoreInstance' = "none"
    /\ expressionArrayInstance' = "none"
    /\ calls' = Unsequenced(strain)
    /\ batch' = Noted(strain = currentStrain)
    /\ UNCHANGED <<dbInstance, cacheStore, lastReturned, view, others>>

\* setStrain that also drops the cached rows of the strain it leaves.
setStrainClears(strain) ==
    /\ IF strain /= currentStrain
       THEN /\ currentStrain' = strain
            /\ expressionStoreInstance' = "none"
            /\ expressionArrayInstance' = "none"
            /\ cacheStore' = [k \in Keys |-> IF k[1] = currentStrain THEN NoEntry
                                             ELSE cacheStore[k]]
       ELSE UNCHANGED <<currentStrain, expressionStoreInstance,
                        expressionArrayInstance, cacheStore>>
    /\ calls' = Unsequenced(strain)
    /\ batch' = Noted(strain = currentStrain)
    /\ UNCHANGED <<dbInstance, lastReturned, view, others>>

setStrain(strain) ==
    /\ IF strain /= currentStrain
       THEN /\ currentStrain' = strain
            /\ expressionStoreInstance' = "none"
            /\ expressionArrayInstance' = "none"
       ELSE UNCHANGED <<currentStrain, expressionStoreInstance, expressionArrayInstance>>
    /\ calls' = Unsequenced(strain)
    /\ batch' = Noted(strain = currentStrain)
    /\ UNCHANGED <<dbInstance, cacheStore, lastReturned, view, others>>

\* ------------------------------------------------- getCachedGeneExpression
\* A cache key that leaves the strain out.
cacheKeyNoStrain(geneIndex) == <<"AX4", geneIndex>>

\* The cache key `${getCurrentStrain()}:${geneIndex}`.
cacheKey(geneIndex) == <<currentStrain, geneIndex>>

\* getCachedGeneExpression has returned null to invocation c, whose record is
\* r.  A probe is done.  loadGeneExpression goes on with getExpressionArray,
\* up to its await, or with zarrArray.get when the array handle is there.
afterMiss(c, r, q) ==
    IF r.role = "probe"
    THEN /\ Settle([calls EXCEPT ![c] = ProbeMiss(r)], q)
         /\ UNCHANGED <<expressionStoreInstance, expressionArrayInstance>>
    ELSE IF expressionArrayInstance /= "none"
    THEN /\ Settle([calls EXCEPT ![c] = [r EXCEPT !.pc = "zarrGet", !.got = NoEntry,
                       !.key = "none", !.atKey = "none",
                       !.h = expressionArrayInstance]], q)
         /\ UNCHANGED <<expressionStoreInstance, expressionArrayInstance>>
    ELSE LET st == IF expressionStoreInstance = "none" THEN currentStrain
                   ELSE expressionStoreInstance
         IN /\ expressionStoreInstance' = st
            /\ Settle([calls EXCEPT ![c] = [r EXCEPT !.pc = "openArray", !.got = NoEntry,
                          !.key = "none", !.atKey = "none", !.h = st]], q)
            /\ UNCHANGED expressionArrayInstance

\* History: whether a call of loadGeneExpression(geneIndex) made now follows,
\* with nothing else in flight, the return of an invocation that fetched the
\* row of the same gene and wrote it, the storage working, under the strain
\* now current.
Follows(geneIndex) ==
    /\ lastReturned /= 0
    /\ \A d \in CallIds : ~InFlight(d)
    /\ calls[lastReturned].pc = "resolved"
    /\ calls[lastReturned].source = "net"
    /\ calls[lastReturned].gene = geneIndex
    /\ ~calls[lastReturned].fault
    /\ calls[lastReturned].atPut = currentStrain

\* History: an invocation joined by another one is no longer the second of two
\* loads made in sequence, alone.
Joined == [c \in CallIds |-> [calls[c] EXCEPT !.seq = FALSE, !.prev = NoEntry]]

\* loadGeneExpression(geneIndex) is called by the application: it runs to
\* `await initCache()`, which requests indexedDB.open unless dbInstance is set.
loadGeneExpression(geneIndex) ==
    /\ FreeIds /= {}
    /\ Cardinality({d \in CallIds : InFlight(d)}) < MaxCalls
    /\ batch.pc = "free"
    /\ calls' = [Joined EXCEPT ![NextId] = [FreeCall EXCEPT !.pc = "initCache",
                    !.gene = geneIndex, !.opening = (~dbInstance),
                    !.seq = Follows(geneIndex),
                    !.prev = IF Follows(geneIndex) THEN calls[lastReturned].result
                             ELSE NoEntry]]
    /\ UNCHANGED <<currentStrain, expressionStoreInstance, expressionArrayInstance,
                   dbInstance, cacheStore, lastReturned, batch, view, others>>

\* initCache has resolved: the key is built from the strain of this moment, the
\* transaction and the get request are made.
lookupRequested(c) ==
    /\ calls[c].pc = "initCache"
    /\ calls[c].opening \/ dbInstance
    /\ dbInstance' = TRUE
    /\ LET k == cacheKey(calls[c].gene)
       IN calls' = [calls EXCEPT ![c].pc = "get", ![c].opening = FALSE,
                       ![c].key = k[1], ![c].got = cacheStore[k],
                       ![c].atKey = currentStrain,
                       ![c].held = cacheStore[<<currentStrain, calls[c].gene>>]]
    /\ UNCHANGED <<currentStrain, expressionStoreInstance, expressionArrayInstance,
                   cacheStore, lastReturned, batch, view, others>>

\* initCache has resolved but db.transaction throws inside the promise
\* executor: the promise getCachedGeneExpression returns (without await) rejects,
\* outside its try/catch.  loadGeneExpression rejects with it; so does the
\* Promise.all of the cache checks, and loadMultipleGenesExpression with it
\* (its other checks are left out from then on: they change nothing it reads).
lookupThrows(c) ==
    /\ calls[c].pc = "initCache"
    /\ calls[c].opening \/ dbInstance
    /\ dbInstance' = TRUE
    /\ IF calls[c].role = "probe"
       THEN /\ batch' = [batch EXCEPT !.pc = "rejected", !.quiet = FALSE]
            /\ calls' = [d \in CallIds |-> FreeCall]
       ELSE Settle(Ret(c, Rejected(calls[c], "cache")), FALSE)
    /\ lastReturned' = Last(c)
    /\ UNCHANGED <<currentStrain, expressionStoreInstance, expressionArrayInstance,
                   cacheStore, view, others>>

\* indexedDB.open fails: initCache rejects, the catch returns null (a miss).
lookupOpenFails(c) ==
    /\ calls[c].pc = "initCache"
    /\ calls[c].opening
    /\ afterMiss(c, [calls[c] EXCEPT !.opening = FALSE, !.seq = FALSE, !.prev = NoEntry],
                 FALSE)
    /\ UNCHANGED <<currentStrain, dbInstance, cacheStore, lastReturned, view, others>>

\* request.onsuccess of the get: a hit returns the entry, a miss goes on.
lookupDelivered(c) ==
    /\ calls[c].pc = "get"
    /\ IF calls[c].got.has
       THEN /\ Settle(Ret(c, Resolved(calls[c], "cache", Float32ArrayOf(calls[c].got.vec))),
                      TRUE)
            /\ lastReturned' = Last(c)
            /\ UNCHANGED <<expressionStoreInstance, expressionArrayInstance>>
       ELSE /\ afterMiss(c, calls[c], TRUE)
            /\ UNCHANGED lastReturned
    /\ UNCHANGED <<currentStrain, dbInstance, cacheStore, view, others>>

\* request.onerror of the get: resolve(null), a miss.
lookupErrors(c) ==
    /\ calls[c].pc = "get"
    /\ afterMiss(c, [calls[c] EXCEPT !.seq = FALSE, !.prev = NoEntry,
                                     !.held = NoEntry], FALSE)
    /\ UNCHANGED <<currentStrain, dbInstance, cacheStore, lastReturned, view, others>>

\* An invocation of clearCache or getCacheStats (one at a time).
\*   op      : "clear", "stats", or "none" before the first one
\*   pc      : "initCache" (awaiting initCache), "request" (the clear or count
\*             request is made), "resolved", "rejected", or "free"
\*   opening : initCache had to request indexedDB.open
\*   will    : how the request made is going to end, "success" or "error"
\*   count   : what the count request counted when it was made
\*   result  : cachedGenes of the object a resolved getCacheStats returned
\*   cleared : history, a clear request has emptied the store and no load has
\*             written an entry since
\*   quiet   : history, a clearCache has resolved and no load has written an
\*             entry since
NoAdmin == [op |-> "none", pc |-> "free", opening |-> FALSE, will |-> "none",
            count |-> 0, result |-> 0, cleared |-> FALSE, quiet |-> FALSE]

\* History: a load has written an entry.
Written(a) == [a EXCEPT !.cleared = FALSE, !.quiet = FALSE]

\* ------------------------------------------------- setCachedGeneExpression
\* A write that never stores (the call of setCachedGeneExpression left out).
putNever(c, r, data) ==
    /\ Settle(Ret(c, [r EXCEPT !.w = "dropped", !.atPut = currentStrain]), TRUE)
    /\ UNCHANGED <<cacheStore, admin>>

\* setCachedGeneExpression after initCache: the key is built from the strain of
\* this moment; store.put(Array.from(data), cacheKey) is made and stores the
\* entry, or the transaction throws or the put fails and nothing is stored.
put(c, r, data) ==
    LET k == cacheKey(r.gene)
    IN \/ /\ cacheStore' = [cacheStore EXCEPT ![k] = Some(ArrayFrom(data))]
          /\ admin' = Written(admin)
          /\ Settle(Ret(c, [r EXCEPT !.w = "stored", !.atPut = currentStrain]), TRUE)
       \/ /\ Settle(Ret(c, [r EXCEPT !.w = "dropped", !.atPut = currentStrain,
                                     !.fault = TRUE]), FALSE)
          /\ UNCHANGED <<cacheStore, admin>>

\* ---------------------------------------------------- loadGeneExpression
\* openArray resolves: the handle is stored, whatever the strain is by now,
\* and zarrArray.get([geneIndex, null]) is requested on it.
arrayOpened(c) ==
    /\ calls[c].pc = "openArray"
    /\ expressionArrayInstance' = calls[c].h
    /\ calls' = [calls EXCEPT ![c].pc = "zarrGet"]
    /\ UNCHANGED <<currentStrain, expressionStoreInstance, dbInstance, cacheStore,
                   lastReturned, batch, view, others>>

\* openArray rejects: loadGeneExpression rejects.
arrayOpenFails(c) ==
    /\ calls[c].pc = "openArray"
    /\ Settle(Ret(c, Rejected(calls[c], "openArray")), TRUE)
    /\ lastReturned' = Last(c)
    /\ UNCHANGED <<currentStrain, expressionStoreInstance, expressionArrayInstance,
                   dbInstance, cacheStore, view, others>>

\* zarrArray.get resolves with a payload of some shape holding the row.
rowFetched(c) ==
    /\ calls[c].pc = "zarrGet"
    /\ \E d \in {decode(Payload(sh, Row(calls[c].h, calls[c].gene))) : sh \in Shapes} :
          IF ~d.ok
          THEN /\ Settle(Ret(c, Rejected(calls[c], "decode")), TRUE)
               /\ UNCHANGED <<cacheStore, admin>>
          ELSE LET r == Resolved(calls[c], "net", d.vec)
               IN IF dbInstance
                  THEN put(c, r, d.vec)
                  ELSE /\ Settle(Ret(c, [r EXCEPT !.w = "initCache"]), TRUE)
                       /\ UNCHANGED <<cacheStore, admin>>
    /\ lastReturned' = Last(c)
    /\ UNCHANGED <<currentStrain, expressionStoreInstance, expressionArrayInstance,
                   dbInstance, view, manifest, pure, plot>>

\* zarrArray.get rejects: loadGeneExpression rejects.
rowFetchFails(c) ==
    /\ calls[c].pc = "zarrGet"
    /\ Settle(Ret(c, Rejected(calls[c], "fetch")), TRUE)
    /\ lastReturned' = Last(c)
    /\ UNCHANGED <<currentStrain, expressionStoreInstance, expressionArrayInstance,
                   dbInstance, cacheStore, view, others>>

\* The indexedDB.open of a pending setCachedGeneExpression succeeds.
writeOpened(c) ==
    /\ calls[c].w = "initCache"
    /\ dbInstance' = TRUE
    /\ put(c, calls[c], calls[c].result.vec)
    /\ lastReturned' = IF c = lastReturned THEN c ELSE 0
    /\ UNCHANGED <<currentStrain, expressionStoreInstance, expressionArrayInstance,
                   view, manifest, pure, plot>>

\* The indexedDB.open of a pending setCachedGeneExpression fails: caught, logged.
writeOpenFails(c) ==
    /\ calls[c].w = "initCache"
    /\ Settle(Ret(c, [calls[c] EXCEPT !.w = "dropped", !.fault = TRUE]), FALSE)
    /\ lastReturned' = IF c = lastReturned THEN c ELSE 0
    /\ UNCHANGED <<currentStrain, expressionStoreInstance, expressionArrayInstance,
                   dbInstance, cacheStore, view, others>>

\* ------------------------------------------- clearCache, getCacheStats
\* store.clear(): every entry goes, of whichever strain.
clearedCurrentStrain(store) ==
    [k \in Keys |-> IF k[1] = currentStrain THEN NoEntry ELSE store[k]]

cleared(store) == [k \in Keys |-> NoEntry]

\* store.count(): the number of entries, of whichever strain.
countCurrentStrain(store) ==
    Cardinality({k \in Keys : store[k].has /\ k[1] = currentStrain})

count(store) == Cardinality({k \in Keys : store[k].has})

\* No invocation of clearCache or getCacheStats is under way.
AdminIdle == admin.pc \in {"free", "resolved", "rejected"}

\* What the loader actions below leave alone.
LoaderElsewhere ==
    UNCHANGED <<currentStrain, expressionStoreInstance, expressionArrayInstance,
                calls, lastReturned, batch, view, manifest, pure, plot>>

\* clearCache() is called: it runs to `await initCache()`.
clearCache ==
    /\ AdminIdle
    /\ admin' = [admin EXCEPT !.op = "clear", !.pc = "initCache",
                    !.opening = (~dbInstance), !.will = "none",
                    !.count = 0, !.result = 0]
    /\ UNCHANGED <<dbInstance, cacheStore>>
    /\ LoaderElsewhere

\* getCacheStats() is called: it runs to `await initCache()`.
getCacheStats ==
    /\ AdminIdle
    /\ admin' = [admin EXCEPT !.op = "stats", !.pc = "initCache",
                    !.opening = (~dbInstance), !.will = "none",
                    !.count = 0, !.result = 0]
    /\ UNCHANGED <<dbInstance, cacheStore>>
    /\ LoaderElsewhere

\* initCache has resolved: the transaction and the request are made and the
\* promise built around them is returned.  A clear request that is going to
\* succeed empties the store, one that is going to fail leaves it; a count
\* request counts the entries.
adminRequested ==
    /\ admin.pc = "initCache"
    /\ admin.opening \/ dbInstance
    /\ dbInstance' = TRUE
    /\ \E outcome \in {"success", "error"} :
          IF admin.op = "clear"
          THEN /\ admin' = [admin EXCEPT !.pc = "request", !.opening = FALSE,
                               !.will = outcome,
                               !.cleared = (outcome = "success" \/ admin.cleared)]
               /\ cacheStore' = IF outcome = "success" THEN cleared(cacheStore)
                                ELSE cacheStore
          ELSE /\ admin' = [admin EXCEPT !.pc = "request", !.opening = FALSE,
                               !.will = outcome,
                               !.count = IF outcome = "success" THEN count(cacheStore)
                                         ELSE 0]
               /\ UNCHANGED cacheStore
    /\ LoaderElsewhere

\* initCache has resolved but db.transaction throws inside the promise
\* executor: the promise returned (without await) rejects, outside the
\* try/catch, and the invocation rejects with it.
adminThrows ==
    /\ admin.pc = "initCache"
    /\ admin.opening \/ dbInstance
    /\ dbInstance' = TRUE
    /\ admin' = [admin EXCEPT !.pc = "rejected", !.opening = FALSE]
    /\ UNCHANGED cacheStore
    /\ LoaderElsewhere

\* indexedDB.open fails: initCache rejects inside the try, the catch logs a
\* warning; clearCache resolves having cleared nothing, getCacheStats returns
\* { cachedGenes: 0 }.
adminOpenFails ==
    /\ admin.pc = "initCache"
    /\ admin.opening
    /\ admin' = [admin EXCEPT !.pc = "resolved", !.opening = FALSE, !.result = 0,
                    !.quiet = (admin.op = "clear" \/ admin.quiet)]
    /\ UNCHANGED <<dbInstance, cacheStore>>
    /\ LoaderElsewhere

\* request.onsuccess: clearCache resolves; getCacheStats resolves with
\* { cachedGenes: request.result }.
adminDelivered ==
    /\ admin.pc = "request"
    /\ admin.will = "success"
    /\ admin' = [admin EXCEPT !.pc = "resolved", !.will = "none", !.count = 0,
                    !.result = admin.count,
                    !.quiet = (admin.op = "clear" \/ admin.quiet)]
    /\ UNCHANGED <<dbInstance, cacheStore>>
    /\ LoaderElsewhere

\* request.onerror: the clear calls reject(new Error('Failed to clear cache'))
\* on the promise returned without await, so clearCache rejects; the count
\* resolves { cachedGenes: 0 }.
adminErrors ==
    /\ admin.pc = "request"
    /\ admin.will = "error"
    /\ admin' = IF admin.op = "clear"
                THEN [admin EXCEPT !.pc = "rejected", !.will = "none"]
                ELSE [admin EXCEPT !.pc = "resolved", !.will = "none", !.count = 0,
                                   !.result = 0]
    /\ UNCHANGED <<dbInstance, cacheStore>>
    /\ LoaderElsewhere

\* ------------------------------------------- SingleCellExpressions (view)
\* The component, as far as its gene-expression effect goes.
\*   datasetInfo: the dataset info is loaded (it is null until then)
\*   genesToDisplay: the genes to display; 0 and 1 are in geneNames, 9 is not
\*   ref: geneExpressionRequestIdRef.current
\*   loads: the loads the effect has started, by request id: st is "none",
\*       "pending" (awaits loadMultipleGenesExpression) or "done"; idx is
\*       geneIndices
\*   transformMode, aggregationMode: the modes of the controls
\*   colorValues: undefined (def FALSE) or the aggregate, by aggregationMode,
\*       of the rows of the genes val, transformed by transformMode;
\*       geneExpressionData: its entries, each the row of gene transformed by
\*       transformMode
\*   loadingGeneExpression; warned, errored: the loads that raised the
\*       partial-failure warning, the error notification; fetching: fetch
\*       started minus fetch ended
\*   isFetchingSingleCellExpressions: the indicator of the store
\* History: runs: the runs of the effect since the component was mounted;
\*       rejected: the loads that were rejected; errors: the dispatches of
\*       handleError('Error loading single cell gene expression data.')
Undefined == [def |-> FALSE, val |-> {}, aggregationMode |-> "none", transformMode |-> "none"]
NoLoad == [st |-> "none", idx |-> <<>>, aggregationMode |-> "none", transformMode |-> "none"]
TransformModes == {"linear", "log1p"}
AggregationModes == {"average", "sum", "min", "max"}
RunIds == 1 .. MaxRuns

\* The most runs of the loadInitialData effect.
MaxInitial == 4

InitialIds == 1 .. MaxInitial

\* const DEFAULT_STRAIN = 'AX4'
DEFAULT_STRAIN == "AX4"

\* The component, as far as its loadInitialData effect goes.
\*   mounted: the component is mounted; listed: loadStrains has resolved
\*   selectedStrain, availableStrains, referenceBounds (set or null), error,
\*       isInitialLoad: the state of these names
\*   umapCoordinates, geneNames, geneSymbols, datasetInfo: the load whose data
\*       the state holds, 0 for the initial [] or null
\*   loads: the runs of the effect in the order they started: st is "none",
\*       "pending" (awaits Promise.all), "resolved" or "rejected"; strain is
\*       the strain its seven requests were made for; selectedStrain and
\*       referenceBounds are the values its closure holds; failed is the
\*       request that rejected
\*   started, ended: the fetch-started and fetch-ended actions it dispatched
NoInitialLoad ==
    [st |-> "none", strain |-> "none", selectedStrain |-> "none",
     referenceBounds |-> FALSE, failed |-> "none"]

NoInitial ==
    [mounted |-> FALSE, listed |-> FALSE, selectedStrain |-> DEFAULT_STRAIN,
     availableStrains |-> <<>>, referenceBounds |-> FALSE, error |-> "null",
     isInitialLoad |-> TRUE, umapCoordinates |-> 0, geneNames |-> 0, geneSymbols |-> 0,
     datasetInfo |-> 0, loads |-> [id \in InitialIds |-> NoInitialLoad],
     started |-> 0, ended |-> 0]

IdleView ==
    [datasetInfo |-> FALSE, genesToDisplay |-> <<>>, ref |-> 0,
     transformMode |-> "log1p", aggregationMode |-> "average",
     loads |-> [id \in RunIds |-> NoLoad],
     colorValues |-> Undefined, geneExpressionData |-> <<>>,
     loadingGeneExpression |-> FALSE, warned |-> {}, errored |-> {}, fetching |-> 0,
     isFetchingSingleCellExpressions |-> FALSE,
     runs |-> 0, initial |-> NoInitial, rejected |-> {}, errors |-> 0]

\* The values genesToDisplay takes.
GeneLists == {<<>>, <<9>>, <<0>>, <<0, 1>>, <<0, 9>>}

\* geneIndices with every displayed gene taken to have an index.
geneIndicesUnchecked(genes) == genes

\* geneIndices: the index in geneNames of every displayed gene that has one.
geneIndices(genes) == SelectSeq(genes, LAMBDA g : g \in Genes)

\* A fence that lets every result through.
alwaysLatest(requestId) == TRUE

\* requestId === geneExpressionRequestIdRef.current
isLatest(requestId) == requestId = view.ref

\* The reducer of the store's indicator on the fetch-started action.
singleCellExpressionsFetchStarted(isFetching) == TRUE

\* The reducer of the store's indicator on the fetch-ended action.
singleCellExpressionsFetchEnded(isFetching) == FALSE

\* The values cleared, the loading flag left as it was.
nothingToLoadStillLoading(v) ==
    [v EXCEPT !.colorValues = Undefined, !.geneExpressionData = <<>>]

\* Nothing to load, the selection being empty or no displayed gene having an
\* index: the values are cleared and the loading flag is reset.
nothingToLoad(v) ==
    [v EXCEPT !.colorValues = Undefined, !.geneExpressionData = <<>>,
              !.loadingGeneExpression = FALSE]

\* One run of the effect on component state v, up to the await of its load.
geneExpressionEffect(v) ==
    IF ~v.datasetInfo THEN v
    ELSE LET requestId == v.ref + 1
             v1 == [v EXCEPT !.ref = requestId]
         IN IF v.genesToDisplay = <<>>
            THEN nothingToLoad(v1)
            ELSE IF geneIndices(v.genesToDisplay) = <<>>
            THEN [nothingToLoad(v1) EXCEPT
                    !.fetching = @ + 1 - 2,
                    !.isFetchingSingleCellExpressions =
                        singleCellExpressionsFetchEnded(
                            singleCellExpressionsFetchEnded(
                                singleCellExpressionsFetchStarted(@)))]
            ELSE [v1 EXCEPT !.loadingGeneExpression = TRUE, !.fetching = @ + 1,
                            !.isFetchingSingleCellExpressions =
                                singleCellExpressionsFetchStarted(@),
                            !.loads[requestId] =
                                [st |-> "pending", idx |-> geneIndices(v.genesToDisplay),
                                 aggregationMode |-> v.aggregationMode,
                                 transformMode |-> v.transformMode]]

Elsewhere ==
    UNCHANGED <<currentStrain, expressionStoreInstance, expressionArrayInstance,
                dbInstance, cacheStore, calls, lastReturned, batch, others>>

\* The genes to display change: the effect runs.
genesChanged(genes) ==
    /\ view.runs < MaxRuns
    /\ genes /= view.genesToDisplay
    /\ view' = [geneExpressionEffect([view EXCEPT !.genesToDisplay = genes])
                   EXCEPT !.runs = @ + 1]
    /\ Elsewhere

\* The aggregation or the transform mode changes: the effect runs.
modeChanged ==
    /\ view.runs < MaxRuns
    /\ \E transformMode \in TransformModes, aggregationMode \in AggregationModes :
          /\ (transformMode = view.transformMode) /= (aggregationMode = view.aggregationMode)
          /\ view' = [geneExpressionEffect([view EXCEPT !.transformMode = transformMode,
                                                        !.aggregationMode = aggregationMode])
                         EXCEPT !.runs = @ + 1]
    /\ Elsewhere

\* loadInitialData ends: datasetInfo, geneNames and geneSymbols are set and the
\* effect runs.
initialDataLoaded ==
    /\ view.runs < MaxRuns
    /\ ~view.datasetInfo
    /\ view' = [geneExpressionEffect([view EXCEPT !.datasetInfo = TRUE])
                   EXCEPT !.runs = @ + 1]
    /\ Elsewhere

\* The modes as the first render had them.
modesAtMount(v, requestId) == <<"average", "log1p">>

\* aggregationMode and transformMode as the closure of the run of the effect
\* that made request requestId holds them.
modesOf(v, requestId) ==
    <<v.loads[requestId].aggregationMode, v.loads[requestId].transformMode>>

\* loadMultipleGenesExpression resolves for the load of request requestId, the
\* indices of failedIndices without data, the others with.
loadResolves(requestId, failedIndices) ==
    /\ view.loads[requestId].st = "pending"
    /\ LET idx == view.loads[requestId].idx
           got == SelectSeq(idx, LAMBDA g : g \notin failedIndices)
           v == [view EXCEPT !.loads[requestId].st = "done", !.fetching = @ - 1,
                             !.isFetchingSingleCellExpressions =
                                 singleCellExpressionsFetchEnded(@)]
       IN /\ failedIndices \subseteq {idx[i] : i \in 1 .. Len(idx)}
          /\ got /= <<>>
          /\ view' = IF ~isLatest(requestId) THEN v
                     ELSE [v EXCEPT
                             !.warned = IF failedIndices /= {} THEN @ \cup {requestId} ELSE @,
                             !.colorValues = [def |-> TRUE,
                                              val |-> {got[i] : i \in 1 .. Len(got)},
                                              aggregationMode |-> modesOf(v, requestId)[1],
                                              transformMode |-> modesOf(v, requestId)[2]],
                             !.geneExpressionData =
                                 [i \in 1 .. Len(got) |->
                                     [gene |-> got[i],
                                      transformMode |-> modesOf(v, requestId)[2]]],
                             !.loadingGeneExpression = FALSE]
    /\ Elsewhere

\* The catch and finally blocks of the latest request, the values of the
\* last load left in place.
failedKeepingValues(v, requestId) ==
    [v EXCEPT !.errored = @ \cup {requestId},
              !.errors = @ + 1,
              !.loadingGeneExpression = FALSE]

\* The catch and finally blocks of the latest request.
failed(v, requestId) ==
    [v EXCEPT !.errored = @ \cup {requestId},
              !.errors = @ + 1,
              !.colorValues = Undefined,
              !.geneExpressionData = <<>>,
              !.loadingGeneExpression = FALSE]

\* loadMultipleGenesExpression rejects for the load of request requestId.
loadRejects(requestId) ==
    /\ view.loads[requestId].st = "pending"
    /\ LET v == [view EXCEPT !.loads[requestId].st = "done", !.fetching = @ - 1,
                             !.isFetchingSingleCellExpressions =
                                 singleCellExpressionsFetchEnded(@),
                             !.rejected = @ \cup {requestId}]
       IN view' = IF ~isLatest(requestId) THEN v ELSE failed(v, requestId)
    /\ Elsewhere

\* ------------------------------- SingleCellExpressions (loadInitialData)
\* The seven requests of Promise.all.
Parts == {"loadUMAPCoordinates", "loadGeneNames", "loadGeneSymbols", "loadCellTags",
          "loadCellTimes", "loadCellTypes", "loadDatasetInfo"}

FailedToLoad == "Failed to load single-cell data. Please check the data files."

\* One run of the effect on component state v, up to the await of Promise.all;
\* strain is the current strain of the loader, which the requests are made for.
loadInitialData(v, strain) ==
    LET id == v.initial.started + 1
    IN [v EXCEPT !.initial.error = "null",
                 !.initial.started = id,
                 !.isFetchingSingleCellExpressions = singleCellExpressionsFetchStarted(@),
                 !.colorValues = Undefined,
                 !.geneExpressionData = <<>>,
                 !.initial.loads[id] =
                     [st |-> "pending", strain |-> strain,
                      selectedStrain |-> v.initial.selectedStrain,
                      referenceBounds |-> v.initial.referenceBounds, failed |-> "none"]]

\* What the component renders: the error, the loading message or the main view.
rendered(v) ==
    IF v.initial.error /= "null" THEN "error"
    ELSE IF v.initial.umapCoordinates = 0 /\ v.initial.isInitialLoad THEN "loading"
    ELSE "main"

\* The component is mounted: the effect runs and loadStrains starts.
mounted ==
    /\ ~view.initial.mounted
    /\ view' = loadInitialData([view EXCEPT !.initial.mounted = TRUE], currentStrain)
    /\ Elsewhere

\* loadStrains: listAvailableStrains resolves with the strains.
loadStrains(strains) ==
    /\ view.initial.mounted
    /\ ~view.initial.listed
    /\ view' = [view EXCEPT !.initial.listed = TRUE, !.initial.availableStrains = strains]
    /\ Elsewhere

\* The select of the strain can be changed to newStrain: it is rendered in the
\* main view only, enabled when there are more strains than one.
selectable(v, newStrain) ==
    /\ rendered(v) = "main"
    /\ Len(v.initial.availableStrains) > 1
    /\ \E k \in 1 .. Len(v.initial.availableStrains) : v.initial.availableStrains[k] = newStrain
    /\ newStrain /= v.initial.selectedStrain

\* handleStrainChange: setStrain(newStrain), setSelectedStrain(newStrain), and
\* the effect runs.
handleStrainChange(newStrain) ==
    /\ selectable(view, newStrain)
    /\ view.initial.started < MaxInitial
    /\ IF newStrain /= currentStrain
       THEN /\ currentStrain' = newStrain
            /\ expressionStoreInstance' = "none"
            /\ expressionArrayInstance' = "none"
       ELSE UNCHANGED <<currentStrain, expressionStoreInstance, expressionArrayInstance>>
    /\ calls' = Unsequenced(newStrain)
    /\ batch' = Noted(newStrain = currentStrain)
    /\ view' = loadInitialData([view EXCEPT !.initial.selectedStrain = newStrain], newStrain)
    /\ UNCHANGED <<dbInstance, cacheStore, lastReturned, others>>

\* The end of the try block: every request of the run has resolved.
loaded(v, id) ==
    LET load == v.initial.loads[id]
        bounds == load.selectedStrain = DEFAULT_STRAIN /\ ~load.referenceBounds
        v1 == [v EXCEPT !.initial.loads[id].st = "resolved",
                        !.initial.referenceBounds = IF bounds THEN TRUE ELSE @,
                        !.initial.umapCoordinates = id,
                        !.initial.geneNames = id,
                        !.initial.geneSymbols = id,
                        !.initial.datasetInfo = id,
                        !.datasetInfo = TRUE,
                        !.initial.isInitialLoad = FALSE,
                        !.initial.ended = @ + 1,
                        !.isFetchingSingleCellExpressions =
                            singleCellExpressionsFetchEnded(@)]
        v2 == geneExpressionEffect(v1)
    IN IF bounds THEN loadInitialData(v2, currentStrain) ELSE v2

\* The catch block, with more of the state set than the block sets.
caughtHalfway(v, id, part) ==
    [v EXCEPT !.initial.loads[id].st = "rejected",
              !.initial.loads[id].failed = part,
              !.initial.geneNames = id,
              !.initial.error = FailedToLoad,
              !.initial.isInitialLoad = FALSE,
              !.initial.ended = @ + 1,
              !.isFetchingSingleCellExpressions = singleCellExpressionsFetchEnded(@)]

\* The catch block.
caught(v, id, part) ==
    [v EXCEPT !.initial.loads[id].st = "rejected",
              !.initial.loads[id].failed = part,
              !.initial.error = FailedToLoad,
              !.initial.isInitialLoad = FALSE,
              !.initial.ended = @ + 1,
              !.isFetchingSingleCellExpressions = singleCellExpressionsFetchEnded(@)]

\* Promise.all resolves for run id; the data is set, and where the reference
\* bounds are set with it the effect runs again.
initialDataResolved(id) ==
    /\ view.initial.loads[id].st = "pending"
    /\ (view.initial.loads[id].selectedStrain = DEFAULT_STRAIN
           /\ ~view.initial.loads[id].referenceBounds)
          => view.initial.started < MaxInitial
    /\ view' = loaded(view, id)
    /\ Elsewhere

\* Promise.all rejects for run id: part is the first of its requests to fail.
initialDataRejected(id, part) ==
    /\ view.initial.loads[id].st = "pending"
    /\ view' = caught(view, id, part)
    /\ Elsewhere

\* Placeholders of the parts modelled below.
\* ---------------------------------------------------- listAvailableStrains
\* The invocations of listAvailableStrains that may be under way together.
MaxListings == 2

Listings == 1 .. MaxListings

\* A response body or a value returned: JSON of some kind (a list of names, an
\* object, null, a list of numbers) or text that is not JSON.
Value(kind, names) == [kind |-> kind, names |-> names]

Bodies ==
    {Value("list", l) : l \in {<<"AX4", "DH1">>, <<"DH1">>, <<>>}}
       \cup {Value(k, <<>>) : k \in {"object", "null", "numbers", "text"}}

\* return ['AX4']
DefaultStrains == Value("list", <<"AX4">>)

\* An invocation of listAvailableStrains.
\*   pc     : "fetch" (awaiting fetch), "json" (awaiting response.json()),
\*            "resolved", "rejected", or "free"
\*   body   : the body of the response received
\*   result : the value a resolved invocation returned
FreeListing == [pc |-> "free", body |-> Value("none", <<>>), result |-> Value("none", <<>>)]

NoManifest == [i \in Listings |-> FreeListing]

\* What the manifest actions leave alone.
ManifestElsewhere ==
    UNCHANGED <<currentStrain, expressionStoreInstance, expressionArrayInstance,
                dbInstance, cacheStore, calls, lastReturned, batch, view, admin,
                pure, plot>>

\* The catch block: a warning is logged, ['AX4'] is returned.
Fallback(l) == [l EXCEPT !.pc = "resolved", !.result = DefaultStrains]

\* `return data` with everything response.json() resolved with.
parsed(l) == [l EXCEPT !.pc = "resolved", !.result = l.body]

\* listAvailableStrains() is called: fetch(`${DATA_BASE_PATH}/strains.json`).
listAvailableStrains(i) ==
    /\ manifest[i].pc \in {"free", "resolved", "rejected"}
    /\ manifest' = [manifest EXCEPT ![i] = [FreeListing EXCEPT !.pc = "fetch"]]
    /\ ManifestElsewhere

\* fetch rejects: caught.
manifestFetchThrows(i) ==
    /\ manifest[i].pc = "fetch"
    /\ manifest' = [manifest EXCEPT ![i] = Fallback(@)]
    /\ ManifestElsewhere

\* fetch resolves: a response that is not ok throws inside the try; an ok one
\* goes on to response.json().
manifestResponded(i, ok, body) ==
    /\ manifest[i].pc = "fetch"
    /\ manifest' = [manifest EXCEPT ![i] =
                       IF ok THEN [@ EXCEPT !.pc = "json", !.body = body]
                       ELSE Fallback([@ EXCEPT !.body = body])]
    /\ ManifestElsewhere

\* response.json() settles: a rejection (text that is not JSON) is rethrown by
\* its .catch and caught; anything it resolves with is returned.
manifestParsed(i) ==
    /\ manifest[i].pc = "json"
    /\ manifest' = [manifest EXCEPT ![i] =
                       IF @.body.kind = "text" THEN Fallback(@) ELSE parsed(@)]
    /\ ManifestElsewhere

\* ------------------------------ aggregateGeneExpression, transformExpression
\* The most vectors aggregateGeneExpression is given.
MaxGenes == 2

\* The values of the cells of the vectors given.
Levels == {-1, 0, 2}

\* The Float32Arrays of n cells.
Vectors(n) == [1 .. n -> Levels]

RECURSIVE GCD(_, _)
GCD(a, b) == IF b = 0 THEN a ELSE GCD(b, a % b)

\* A number computed: num/den in lowest terms, or its natural logarithm.
Number(p, q) ==
    LET a == IF p < 0 THEN -p ELSE p
        g == GCD(a, q)
    IN [num |-> p \div g, den |-> q \div g, ln |-> FALSE]

\* value = Infinity and value = -Infinity, beyond every value of a cell.
Infinity == 1000

\* Math.min, Math.max
MathMin(a, b) == IF b < a THEN b ELSE a

MathMax(a, b) == IF b > a THEN b ELSE a

\* Math.log1p(value) for value >= 0
MathLog1p(value) ==
    IF value = 0 THEN Number(0, 1) ELSE [num |-> 1 + value, den |-> 1, ln |-> TRUE]

\* for (const expr of geneExpressions) { value = step(value, expr[cellIdx]) },
\* from the k-th vector on.
RECURSIVE loop(_, _, _, _, _)
loop(step, geneExpressions, cellIdx, k, value) ==
    IF k > Len(geneExpressions) THEN value
    ELSE loop(step, geneExpressions, cellIdx, k + 1,
              IF step = "add" THEN value + geneExpressions[k][cellIdx]
              ELSE IF step = "min" THEN MathMin(value, geneExpressions[k][cellIdx])
              ELSE MathMax(value, geneExpressions[k][cellIdx]))

\* value /= geneExpressions.length
divideByOne(value, n) == Number(value, 1)

divide(value, n) == Number(value, n)

\* The switch on mode for one cell.
cell(geneExpressions, mode, cellIdx) ==
    IF mode = "sum" THEN Number(loop("add", geneExpressions, cellIdx, 1, 0), 1)
    ELSE IF mode = "average"
    THEN divide(loop("add", geneExpressions, cellIdx, 1, 0), Len(geneExpressions))
    ELSE IF mode = "min" THEN Number(loop("min", geneExpressions, cellIdx, 1, Infinity), 1)
    ELSE IF mode = "max" THEN Number(loop("max", geneExpressions, cellIdx, 1, -Infinity), 1)
    ELSE Number(0, 1)

\* aggregateGeneExpression(geneExpressions, mode): its result.
aggregated(geneExpressions, mode) ==
    IF Len(geneExpressions) = 0 THEN <<>>
    ELSE [cellIdx \in 1 .. Len(geneExpressions[1]) |->
             cell(geneExpressions, mode, cellIdx)]

\* The transformer picked by mode.
transformerUnclamped(mode, value) ==
    IF mode = "linear" \/ value < 0 THEN Number(value, 1) ELSE MathLog1p(value)

transformer(mode, value) ==
    IF mode = "linear" THEN Number(value, 1)
    ELSE IF value >= 0 THEN MathLog1p(value) ELSE Number(0, 1)

\* transformExpression(expression, mode): its result,
\* new Float32Array(expression.map(transformer)).
transformed(expression, mode) ==
    [i \in 1 .. Len(expression) |-> transformer(mode, expression[i])]

\* A call of one of the two functions.
\*   pc     : "called", "returned", or "free" when there is none
\*   op     : "aggregate" or "transform"
\*   mode   : the mode given
\*   given  : the vectors given, as they were at the call
\*   args   : the same vectors as they are now
\*   result : the vector returned
NoPure == [pc |-> "free", op |-> "none", mode |-> "none", given |-> <<>>,
           args |-> <<>>, result |-> <<>>]

Called(op, mode, vectors) ==
    [NoPure EXCEPT !.pc = "called", !.op = op, !.mode = mode, !.given = vectors,
                   !.args = vectors]

\* The calls made: aggregateGeneExpression with up to MaxGenes vectors of one
\* length, transformExpression with one vector, of up to NCells cells.
PureCalls ==
    {Called("aggregate", mode, geneExpressions) :
        mode \in {"sum", "average", "min", "max"},
        geneExpressions \in UNION {[1 .. m -> Vectors(n)] :
                                     m \in 0 .. MaxGenes, n \in 0 .. NCells}}
       \cup {Called("transform", mode, <<expression>>) :
                mode \in {"linear", "log1p"},
                expression \in UNION {Vectors(n) : n \in 0 .. NCells}}

\* What the calls of the two functions leave alone.
PureElsewhere ==
    UNCHANGED <<currentStrain, expressionStoreInstance, expressionArrayInstance,
                dbInstance, cacheStore, calls, lastReturned, batch, view, admin,
                manifest, plot>>

\* aggregateGeneExpression runs: it reads its vectors and writes only the new
\* Float32Array it returns.
aggregateGeneExpression ==
    /\ pure.pc = "called"
    /\ pure.op = "aggregate"
    /\ pure' = [pure EXCEPT !.pc = "returned",
                            !.result = aggregated(pure.args, pure.mode)]
    /\ PureElsewhere

\* transformExpression runs: it reads its vector and writes only the new
\* Float32Array it returns.
transformExpression ==
    /\ pure.pc = "called"
    /\ pure.op = "transform"
    /\ pure' = [pure EXCEPT !.pc = "returned",
                            !.result = transformed(pure.args[1], pure.mode)]
    /\ PureElsewhere

\* ------------------------------------------------------- colors of a plot
\* The most rows of a dataset given to the plot.
MaxRows == 3

\* A category of a row: null, or a string.
Absent == [has |-> FALSE, v |-> ""]

Present(v) == [has |-> TRUE, v |-> v]

\* The category strings of the datasets, in the order of their UTF-16 code
\* units (the order of Array.prototype.sort without a comparator).
Labels == <<"0h", "4h", "Type A", "Type B", "Type C">>

\* The place of a string in that order.
Order(v) == CHOOSE k \in 1 .. Len(Labels) : Labels[k] = v

\* The rows (UmapDataPoint, as far as time and cell_type go) of the datasets.
Rows ==
    {[time |-> Present("0h"), cell_type |-> Present("Type B")],
     [time |-> Present("4h"), cell_type |-> Present("Type A")],
     [time |-> Absent, cell_type |-> Present("Type C")],
     [time |-> Present("0h"), cell_type |-> Absent]}

\* The datasets of up to MaxRows rows.
Datasets == UNION {[1 .. n -> Rows] : n \in 0 .. MaxRows}

\* const ZERO_COLOR, TIME_COLORS, CELL_TYPE_COLORS
ZERO_COLOR == "#e8e8e8"

TIME_COLORS == <<"#e55b33", "#f39446", "#ece852", "#63be68", "#47b19f", "#2c7eb3">>

CELL_TYPE_COLORS == <<"#e45a31", "#2f7db1">>

\* Array.from(new Set(values.filter(t => t != null))): the strings of the
\* values that are not null, each once, in the order they come first.
RECURSIVE unique(_, _, _)
unique(values, i, seen) ==
    IF i > Len(values) THEN seen
    ELSE IF values[i].has /\ \A k \in 1 .. Len(seen) : seen[k] /= values[i].v
    THEN unique(values, i + 1, Append(seen, values[i].v))
    ELSE unique(values, i + 1, seen)

\* .sort(): the strings in the order of their code units.
unsorted(strings) == strings

RECURSIVE sort(_)
sort(strings) ==
    IF Len(strings) = 0 THEN <<>>
    ELSE LET least == CHOOSE k \in 1 .. Len(strings) :
                         \A j \in 1 .. Len(strings) : Order(strings[k]) <= Order(strings[j])
         IN <<strings[least]>>
               \o sort([j \in 1 .. Len(strings) - 1 |->
                           IF j < least THEN strings[j] ELSE strings[j + 1]])

\* The sorted distinct categories of the values and the palette color of each:
\* palette[idx % palette.length] for the idx-th of them, from 0.
legendItems(values, palette) ==
    LET uniques == sort(unique(values, 1, <<>>))
    IN [k \in 1 .. Len(uniques) |->
           [label |-> uniques[k], color |-> palette[((k - 1) % Len(palette)) + 1]]]

\* The color cache of the values: for each row the color its category got in
\* the map, ZERO_COLOR for null.
colorCache(values, palette) ==
    LET items == legendItems(values, palette)
    IN [i \in 1 .. Len(values) |->
           IF values[i].has
           THEN items[CHOOSE k \in 1 .. Len(items) : items[k].label = values[i].v].color
           ELSE ZERO_COLOR]

\* data.map(d => d.time), data.map(d => d.cell_type)
times(data) == [i \in 1 .. Len(data) |-> data[i].time]

cellTypes(data) == [i \in 1 .. Len(data) |-> data[i].cell_type]

buildTimeColorCache(data) == colorCache(times(data), TIME_COLORS)

buildCellTypeColorCache(data) == colorCache(cellTypes(data), CELL_TYPE_COLORS)

\* The calls of the two builders, with every dataset.
ColorCalls ==
    {[NoPure EXCEPT !.pc = "called", !.op = "colors", !.mode = mode, !.given = data,
                    !.args = data] :
        mode \in {"time", "cell_type"}, data \in Datasets}

\* buildTimeColorCache or buildCellTypeColorCache runs.
buildColorCacheOfMode ==
    /\ pure.pc = "called"
    /\ pure.op = "colors"
    /\ pure' = [pure EXCEPT !.pc = "returned",
                   !.result = IF pure.mode = "time" THEN buildTimeColorCache(pure.args)
                              ELSE buildCellTypeColorCache(pure.args)]
    /\ PureElsewhere

\* ------------------------------------------------------------ renderTooltip
\* The most genes loaded when a cell is hovered.
MaxLoaded == 6

\* const showTop = 5
showTop == 5

\* The display symbols of the genes, in the order of localeCompare (letters
\* before their case: "CarA" is after "acaA" and before "cotB").
Collation == <<"acaA", "CarA", "cotB", "ecmA", "pspA", "rnlA", "zakA">>

\* a.localeCompare(b): negative, zero or positive.
localeCompare(a, b) ==
    (CHOOSE k \in 1 .. Len(Collation) : Collation[k] = a)
       - (CHOOSE k \in 1 .. Len(Collation) : Collation[k] = b)

\* The genes that may be loaded (GeneExpressionData), with their values at
\* the cells "0" and "1".
LoadedGenes ==
    {[geneName |-> "DDB_G01", geneSymbol |-> "pspA", expression |-> <<2, 0>>],
     [geneName |-> "DDB_G02", geneSymbol |-> "ecmA", expression |-> <<0, 0>>],
     [geneName |-> "DDB_G03", geneSymbol |-> "CarA", expression |-> <<-1, 0>>],
     [geneName |-> "DDB_G04", geneSymbol |-> "cotB", expression |-> <<2, 1>>],
     [geneName |-> "DDB_G05", geneSymbol |-> "acaA", expression |-> <<3, 0>>],
     [geneName |-> "DDB_G06", geneSymbol |-> "rnlA", expression |-> <<0, 2>>],
     [geneName |-> "DDB_G07", geneSymbol |-> "zakA", expression |-> <<1, 0>>]}

\* parseInt(hoveredPoint.id), for the ids of the two cells.
parseInt(id) == CHOOSE n \in 0 .. 1 : ToString(n) = id

\* The comparators of the two sorts.
compareAscending(by, a, b) ==
    IF by = "value" THEN a.value - b.value ELSE localeCompare(a.symbol, b.symbol)

compare(by, a, b) ==
    IF by = "value" THEN b.value - a.value ELSE localeCompare(a.symbol, b.symbol)

\* list.sort(compare): a stable sort; each element goes after the elements of
\* the sorted part that do not compare above it.
RECURSIVE sortFrom(_, _, _, _)
sortFrom(by, list, i, done) ==
    IF i > Len(list) THEN done
    ELSE LET before == Cardinality({k \in 1 .. Len(done) : compare(by, done[k], list[i]) <= 0})
         IN sortFrom(by, list, i + 1,
                     [k \in 1 .. Len(done) + 1 |->
                         IF k <= before THEN done[k]
                         ELSE IF k = before + 1 THEN list[i]
                         ELSE done[k - 1]])

\* for (const geneData of geneExpressionData): the genes of one kind, with
\* their values at the cell, in the order given.
RECURSIVE split(_, _, _, _)
split(geneExpressionData, cellId, positive, i) ==
    IF i > Len(geneExpressionData) THEN <<>>
    ELSE LET geneData == geneExpressionData[i]
             value == geneData.expression[cellId + 1]
             gene == [name |-> geneData.geneName, symbol |-> geneData.geneSymbol,
                      value |-> value]
         IN (IF (value > 0) = positive THEN <<gene>> ELSE <<>>)
               \o split(geneExpressionData, cellId, positive, i + 1)

\* list.slice(0, n)
slice(list, n) == SubSeq(list, 1, IF Len(list) < n THEN Len(list) ELSE n)

\* renderTooltip: the genes listed, and whether "..." follows them.
tooltip(hoveredId, geneExpressionData) ==
    LET cellId == parseInt(hoveredId)
        totalGenes == Len(geneExpressionData)
        expressed == sortFrom("value", split(geneExpressionData, cellId, TRUE, 1), 1, <<>>)
        zeros == sortFrom("symbol", split(geneExpressionData, cellId, FALSE, 1), 1, <<>>)
        displayGenes == IF totalGenes > 0 THEN slice(expressed \o zeros, showTop) ELSE <<>>
        hasMore == totalGenes > 0 /\ totalGenes > showTop
    IN [displayGenes |-> displayGenes, hasMore |-> hasMore,
        dots |-> Len(displayGenes) > 0 /\ hasMore]

\* The lists of n genes, no gene twice, in every order.
RECURSIVE GeneLoads(_)
GeneLoads(n) ==
    IF n = 0 THEN {<<>>}
    ELSE UNION {{Append(l, g) : g \in LoadedGenes \ {l[k] : k \in 1 .. Len(l)}} :
                   l \in GeneLoads(n - 1)}

\* The lists of up to MaxLoaded genes.
GeneData == UNION {GeneLoads(n) : n \in 0 .. MaxLoaded}

\* The renderings of the tooltip: a hovered cell and the genes loaded.
TooltipCalls ==
    {[NoPure EXCEPT !.pc = "called", !.op = "tooltip", !.mode = id, !.given = genes,
                    !.args = genes] :
        id \in {"0", "1"}, genes \in GeneData}

\* renderTooltip runs.
renderTooltip ==
    /\ pure.pc = "called"
    /\ pure.op = "tooltip"
    /\ pure' = [pure EXCEPT !.pc = "returned", !.result = tooltip(pure.mode, pure.args)]
    /\ PureElsewhere

\* --------------------------------------------------------------- UmapPlot
\* The most pointer and wheel events the plot is given.
MaxEvents == 4

\* useState({ width: 800, height: 600 })
Width == 800

Height == 600

\* Where the pointer is at an event, in canvas pixels: the centre and a place
\* off it on both axes.
Pointers == {<<400, 300>>, <<500, 350>>}

\* The deltaY of a wheel event, in units of ln 2 / 0.0015, so that
\* Math.exp(-deltaY * k) is 2 to the power -deltaY.
Deltas == {-1, 1}

\* Exact arithmetic on the numbers num/den.
Whole(n) == Number(n, 1)

Plus(a, b) ==
    LET g == GCD(a.den, b.den)
    IN Number(a.num * (b.den \div g) + b.num * (a.den \div g), a.den * (b.den \div g))

Minus(a, b) ==
    LET g == GCD(a.den, b.den)
    IN Number(a.num * (b.den \div g) - b.num * (a.den \div g), a.den * (b.den \div g))

Times(a, b) == Number(a.num * b.num, a.den * b.den)

Over(a, b) == Number(a.num * b.den, a.den * b.num)

RECURSIVE Pow2(_)
Pow2(n) == IF n = 0 THEN 1 ELSE 2 * Pow2(n - 1)

\* Math.exp(-wheelAccumRef.current * k)
MathExp(accum) == IF accum <= 0 THEN Number(Pow2(-accum), 1) ELSE Number(1, Pow2(accum))

\* A ViewTransform.
ViewTransform(scale, offsetX, offsetY) ==
    [scale |-> scale, offsetX |-> offsetX, offsetY |-> offsetY]

Identity == ViewTransform(Whole(1), Whole(0), Whole(0))

\* The screen position calculateScreenCoordinates gives the point whose
\* position before the transform is base.
Screen(base, t) ==
    <<Plus(Plus(Times(Minus(base[1], Number(Width, 2)), t.scale), Number(Width, 2)),
           t.offsetX),
      Plus(Plus(Times(Minus(base[2], Number(Height, 2)), t.scale), Number(Height, 2)),
           t.offsetY)>>

\* The component's state, as far as the view transform goes.
\*   transformRef  : transformRef.current
\*   isDragging, dragStart, lastTransform : the React state of those names
\*   wheelAccumRef : wheelAccumRef.current
\*   wheelRafRef   : an animation frame is requested for the zoom
\*   coords        : the pointer position the requested callback has captured
\*   hoverRafRef   : an animation frame is requested for the hover
\*   hoverCoords   : the pointer position the hover callback requested last
\*                   has captured
\*   hoveredPointRef : the id of hoveredPointRef.current, 0 for null
\*   hoveredScreen : screenX and screenY of hoveredPointRef.current
\*   frames        : the callbacks the browser holds for the next animation
\*                   frame, of the zoom and of the hover
\*   events        : history, the events handled so far
\*   last          : history, what the last handler did: "reset", "pan",
\*                   "zoom" (a tick that changed the transform), "hover" (a
\*                   hover recomputation), or "other"
\*   before        : history, transformRef.current before a reset, pan or zoom
\*   merged        : history, the pointer positions of the wheel events the
\*                   pending or last tick stands for
\*   sum           : history, the sum of the deltaY of all wheel events
\*   wheelOnly     : history, only wheel events and ticks have happened
\*   sinceReset    : history, a reset has been made and no wheel event, mouse
\*                   down or move of a drag has happened since
NoScreen == <<Whole(0), Whole(0)>>

NoPlot ==
    [transformRef |-> Identity, isDragging |-> FALSE, dragStart |-> <<0, 0>>,
     lastTransform |-> Identity, wheelAccumRef |-> 0, wheelRafRef |-> FALSE,
     coords |-> <<0, 0>>, hoverRafRef |-> FALSE, hoverCoords |-> <<0, 0>>,
     hoveredPointRef |-> 0, hoveredScreen |-> NoScreen,
     frames |-> [wheel |-> 0, hover |-> 0],
     events |-> 0, last |-> "other", before |-> Identity,
     merged |-> {}, sum |-> 0, wheelOnly |-> TRUE, sinceReset |-> FALSE,
     data |-> <<>>, colorModeOverride |-> "null", colorCacheRef |-> <<>>,
     timeLegendItems |-> <<>>, cellTypeLegendItems |-> <<>>,
     colorValues |-> NoEntry, legendMaxRef |-> 1, expressionMax |-> 1]

\* What the handlers of the plot leave alone.
PlotElsewhere ==
    UNCHANGED <<currentStrain, expressionStoreInstance, expressionArrayInstance,
                dbInstance, cacheStore, calls, lastReturned, batch, view, admin,
                manifest, pure>>

\* History: a pointer event is handled.
Handled(q, what) ==
    [q EXCEPT !.events = @ + 1, !.last = what,
              !.hoverCoords = IF q.hoverRafRef THEN @ ELSE <<0, 0>>,
              !.before = IF what = "other" THEN Identity ELSE q.transformRef,
              !.merged = IF q.wheelRafRef THEN @ ELSE {},
              !.wheelOnly = FALSE,
              !.sinceReset = IF what = "reset" THEN TRUE
                             ELSE IF what = "pan" THEN FALSE ELSE @]

\* handleMouseDown: the drag starts from the pointer and the transform of now
\* and the hovered point is dropped; a hover frame requested stays requested.
handleMouseDown(coords) ==
    /\ plot.events < MaxEvents
    /\ plot' = [Handled(plot, "other") EXCEPT !.isDragging = TRUE,
                   !.sinceReset = FALSE,
                   !.dragStart = coords, !.lastTransform = plot.transformRef,
                   !.hoveredPointRef = 0, !.hoveredScreen = NoScreen]
    /\ PlotElsewhere

\* if (ref.current !== null) return: a frame is requested only when none is.
mayRequestAlways(ref) == TRUE

mayRequest(ref) == ~ref

\* The transform a move of the drag sets.
panned(q, coords) ==
    [q.lastTransform EXCEPT
        !.offsetX = Plus(q.lastTransform.offsetX, Whole(coords[1] - q.dragStart[1])),
        !.offsetY = Plus(q.lastTransform.offsetY, Whole(coords[2] - q.dragStart[2]))]

\* handleMouseMove: while dragging, the hovered point is dropped and
\* transformRef.current becomes lastTransform with its offsets moved by the
\* displacement since the drag started; otherwise a hover frame is requested
\* with the coords of this event, unless one is requested already.
handleMouseMove(coords) ==
    /\ plot.events < MaxEvents
    /\ plot' = IF plot.isDragging
               THEN [Handled(plot, "pan") EXCEPT !.transformRef = panned(plot, coords),
                                                 !.hoveredPointRef = 0, !.hoveredScreen = NoScreen]
               ELSE IF mayRequest(plot.hoverRafRef)
               THEN [Handled(plot, "other") EXCEPT !.hoverRafRef = TRUE,
                                                   !.hoverCoords = coords,
                                                   !.frames.hover = @ + 1]
               ELSE Handled(plot, "other")
    /\ PlotElsewhere

\* handleMouseUp
handleMouseUp ==
    /\ plot.events < MaxEvents
    /\ plot' = [Handled(plot, "other") EXCEPT !.isDragging = FALSE,
                                              !.hoveredPointRef = 0, !.hoveredScreen = NoScreen]
    /\ PlotElsewhere

\* handleMouseLeave: a hover frame requested is cancelled.
handleMouseLeave ==
    /\ plot.events < MaxEvents
    /\ plot' = [Handled(plot, "other") EXCEPT !.isDragging = FALSE,
                   !.hoveredPointRef = 0, !.hoveredScreen = NoScreen, !.hoverRafRef = FALSE,
                   !.hoverCoords = <<0, 0>>,
                   !.frames.hover = IF plot.hoverRafRef THEN @ - 1 ELSE @]
    /\ PlotElsewhere

\* The points of the dataset by id, each at the place of the canvas it has
\* before the view transform (baseX, baseY).
BasePoints == <<<<400, 300>>, <<504, 350>>, <<502, 350>>>>

\* const R = 6
R == 6

\* a <= b for the numbers num/den
AtMost(a, b) ==
    LET g == GCD(a.den, b.den)
    IN a.num * (b.den \div g) <= b.num * (a.den \div g)

\* A number beyond R * R, for the squared distance of a point more than R
\* pixels away along an axis (its square is not computed).
Far == Whole(R * R + 1)

\* dx * dx + dy * dy for the point p of the screen and the pointer at coords
d2(p, coords) ==
    LET dx == Minus(p[1], Whole(coords[1]))
        dy == Minus(p[2], Whole(coords[2]))
        near(d) == AtMost(d, Whole(R)) /\ AtMost(Whole(-R), d)
    IN IF near(dx) /\ near(dy) THEN Plus(Times(dx, dx), Times(dy, dy)) ELSE Far

\* if (d2 <= best)
acceptsAll(d, best) == TRUE

accepts(d, best) == AtMost(d, best)

\* for (let i = 0; i < pts.length; i++): the id of the closest point so far,
\* from the i-th point on.
RECURSIVE scan(_, _, _, _, _)
scan(t, coords, i, best, closest) ==
    IF i > Len(BasePoints) THEN closest
    ELSE LET d == d2(Screen(<<Whole(BasePoints[i][1]), Whole(BasePoints[i][2])>>, t),
                     coords)
         IN IF accepts(d, best) THEN scan(t, coords, i + 1, d, i)
            ELSE scan(t, coords, i + 1, best, closest)

\* The animation frame requested by handleMouseMove: the point nearest to the
\* coords the callback holds, within R pixels, becomes the hovered point.  The
\* points of spatialIndexRef.current are those of the transform of now, every
\* handler that changes the transform having computed them again.  The point
\* object, with its screen position, is stored only when its id differs from
\* the id of the one stored.
hoverTick ==
    /\ plot.frames.hover > 0
    /\ LET closest == scan(plot.transformRef, plot.hoverCoords, 1, Whole(R * R), 0)
       IN plot' = [plot EXCEPT !.hoverRafRef = FALSE,
                      !.frames.hover = @ - 1,
                      !.hoveredPointRef = closest,
                      !.hoveredScreen =
                          IF plot.hoveredPointRef = closest THEN @
                          ELSE IF closest = 0 THEN NoScreen
                          ELSE Screen(<<Whole(BasePoints[closest][1]),
                                        Whole(BasePoints[closest][2])>>,
                                      plot.transformRef),
                      !.last = "hover", !.before = Identity]
    /\ PlotElsewhere

\* The transform a reset sets.
resetKeepingOffsets(t) == [t EXCEPT !.scale = Whole(1)]

reset(t) == ViewTransform(Whole(1), Whole(0), Whole(0))

\* handleDoubleClick, on a double click of the canvas or a click of Reset View.
handleDoubleClick ==
    /\ plot.events < MaxEvents
    /\ plot' = [Handled(plot, "reset") EXCEPT !.transformRef = reset(plot.transformRef)]
    /\ PlotElsewhere

\* wheelAccumRef.current += event.deltaY
accumulated(accum, deltaY) == accum + deltaY

\* One run of handleWheel: the delta is added; unless a frame is requested
\* already, one is, with a callback that holds the coords of this event.
handleWheel(q, coords, deltaY) ==
    [q EXCEPT !.wheelAccumRef = accumulated(@, deltaY),
              !.wheelRafRef = TRUE,
              !.coords = IF mayRequest(q.wheelRafRef) THEN coords ELSE @,
              !.frames.wheel = IF mayRequest(q.wheelRafRef) THEN @ + 1 ELSE @]

\* A wheel event.  onWheel={handleWheel} is set on the canvas and on the
\* container around it: an event over the canvas bubbles and runs the handler
\* twice, one over the rest of the container runs it once.
wheel(onCanvas, coords, deltaY) ==
    /\ plot.events < MaxEvents
    /\ LET once == handleWheel(plot, coords, deltaY)
           ran == IF onCanvas THEN handleWheel(once, coords, deltaY) ELSE once
       IN plot' = [ran EXCEPT !.events = @ + 1, !.last = "other",
                              !.before = Identity,
                              !.merged = (IF plot.wheelRafRef THEN @ ELSE {})
                                            \cup {coords},
                              !.sum = @ + deltaY,
                              !.sinceReset = FALSE]
    /\ PlotElsewhere

\* The animation frame requested by handleWheel: the scale is multiplied by
\* the ratio of the deltas accumulated and the offsets are recomputed around
\* the coords the callback holds.
zoomTick ==
    /\ plot.frames.wheel > 0
    /\ LET baseScale == plot.transformRef.scale
           ratio == MathExp(plot.wheelAccumRef)
           newScale == Times(baseScale, ratio)
           scaleRatio == Over(newScale, plot.transformRef.scale)
           centerX == Number(Width, 2)
           centerY == Number(Height, 2)
           newOffsetX == Plus(Times(Minus(Whole(plot.coords[1]), centerX),
                                    Minus(Whole(1), scaleRatio)),
                              Times(plot.transformRef.offsetX, scaleRatio))
           newOffsetY == Plus(Times(Minus(Whole(plot.coords[2]), centerY),
                                    Minus(Whole(1), scaleRatio)),
                              Times(plot.transformRef.offsetY, scaleRatio))
           done == [plot EXCEPT !.wheelAccumRef = 0, !.wheelRafRef = FALSE,
                                !.coords = <<0, 0>>, !.frames.wheel = @ - 1]
       IN plot' = IF newScale /= plot.transformRef.scale
                  THEN [done EXCEPT !.transformRef =
                                       ViewTransform(newScale, newOffsetX, newOffsetY),
                                    !.last = "zoom", !.before = plot.transformRef]
                  ELSE [done EXCEPT !.last = "other", !.before = Identity]
    /\ PlotElsewhere

\* ---------------------------------------------------- legends of the plot
\* The datasets the plot is given in turn: none, rows out of sorted order,
\* rows without a time, more cell types than the palette has colors.
PlotDatasets ==
    {<<>>,
     <<[time |-> Present("4h"), cell_type |-> Present("Type A")],
       [time |-> Present("0h"), cell_type |-> Present("Type B")]>>,
     <<[time |-> Absent, cell_type |-> Present("Type C")]>>,
     <<[time |-> Absent, cell_type |-> Present("Type C")],
       [time |-> Present("0h"), cell_type |-> Present("Type B")],
       [time |-> Present("4h"), cell_type |-> Present("Type A")]>>,
     <<[time |-> Present("0h"), cell_type |-> Absent],
       [time |-> Present("0h"), cell_type |-> Present("Type B")]>>,
     <<[time |-> Present("4h"), cell_type |-> Absent]>>}

\* The color values the plot is given in turn: none, or a value for each of
\* up to three cells.
PlotValues ==
    {NoEntry, Some(<<0, 0, 0>>), Some(<<-1, 2, 4>>), Some(<<3, Infinity, 0>>)}

\* isFinite(v)
isFinite(v) == v /= Infinity /\ v /= -Infinity

\* computeLegendMax(values, nCells), the loop from the i-th value on.
RECURSIVE legendMaxFrom(_, _, _)
legendMaxFrom(values, i, max) ==
    IF i > Len(values) THEN max
    ELSE legendMaxFrom(values, i + 1,
                       IF isFinite(values[i]) /\ values[i] > max THEN values[i] ELSE max)

computeLegendMax(values) ==
    LET max == legendMaxFrom(values, 1, 0)
    IN IF max > 0 THEN max ELSE 1

\* clamp01, lerp, Math.round (of a fraction, halves upwards)
clamp01(t) ==
    IF AtMost(t, Whole(0)) THEN Whole(0) ELSE IF AtMost(Whole(1), t) THEN Whole(1) ELSE t

lerp(a, b, t) == Plus(Whole(a), Times(Whole(b - a), t))

MathRound(x) == (2 * x.num + x.den) \div (2 * x.den)

\* hexToRgb('#e8e8e8'), hexToRgb('#4a688d'), hexToRgb('#375068')
start == [r |-> 232, g |-> 232, b |-> 232]

mid == [r |-> 74, g |-> 104, b |-> 141]

end == [r |-> 55, g |-> 80, b |-> 104]

\* `rgb(${...}, ${...}, ${...})` of the rounded channels between two colors
rgb(from, to, k) ==
    "rgb(" \o ToString(MathRound(lerp(from.r, to.r, k))) \o ", "
           \o ToString(MathRound(lerp(from.g, to.g, k))) \o ", "
           \o ToString(MathRound(lerp(from.b, to.b, k))) \o ")"

\* genesColor(t), 0.8 and 0.2 taken as the fractions 4/5 and 1/5.
genesColor(t) ==
    LET tt == clamp01(t)
    IN IF AtMost(tt, Number(4, 5)) THEN rgb(start, mid, Over(tt, Number(4, 5)))
       ELSE rgb(mid, end, Over(Minus(tt, Number(4, 5)), Number(1, 5)))

\* const colorMode = colorModeOverride || 'time'
colorMode(q) == IF q.colorModeOverride = "null" THEN "time" ELSE q.colorModeOverride

\* The effect of [colorValues, data, colorMode] on the color cache.
cacheOfTimes(q) == buildTimeColorCache(q.data)

cacheOf(q) ==
    IF colorMode(q) = "time" THEN buildTimeColorCache(q.data)
    ELSE buildCellTypeColorCache(q.data)

\* The two effects of [data, colorMode] on the legends: the items of the
\* current mode are set anew when there are rows, and stay otherwise.
timeLegend(q) ==
    IF colorMode(q) = "time" /\ Len(q.data) > 0
    THEN legendItems(times(q.data), TIME_COLORS)
    ELSE q.timeLegendItems

cellTypeLegend(q) ==
    IF colorMode(q) = "cell_type" /\ Len(q.data) > 0
    THEN legendItems(cellTypes(q.data), CELL_TYPE_COLORS)
    ELSE q.cellTypeLegendItems

\* The effects of a render and the render their state updates bring. (An
\* effect whose dependencies are as they were would compute what it computed.)
effects(q) ==
    [q EXCEPT !.colorCacheRef = cacheOf(q),
              !.legendMaxRef = IF q.colorValues.has THEN computeLegendMax(q.colorValues.vec)
                               ELSE @,
              !.expressionMax = IF q.colorValues.has THEN computeLegendMax(q.colorValues.vec)
                                ELSE @,
              !.timeLegendItems = timeLegend(q),
              !.cellTypeLegendItems = cellTypeLegend(q)]

\* The parent renders the plot with another dataset.
dataReplaced(data) ==
    /\ plot' = effects([plot EXCEPT !.data = data])
    /\ PlotElsewhere

\* The parent renders the plot with other color values.
colorValuesChanged(values) ==
    /\ plot' = effects([plot EXCEPT !.colorValues = values])
    /\ PlotElsewhere

\* The select of the color mode changes: setColorModeOverride(e.target.value)
setColorModeOverride(mode) ==
    /\ plot' = effects([plot EXCEPT !.colorModeOverride = mode])
    /\ PlotElsewhere


\* --------------------------------------------------------- specifications

\* The state of a page that has just loaded the module, its store still empty.
Init ==
    /\ currentStrain = "AX4"
    /\ expressionStoreInstance = "none"
    /\ expressionArrayInstance = "none"
    /\ dbInstance = FALSE
    /\ cacheStore = [k \in Keys |-> NoEntry]
    /\ calls = [c \in CallIds |-> FreeCall]
    /\ lastReturned = 0
    /\ batch = FreeBatch
    /\ view = IdleView
    /\ admin = NoAdmin
    /\ manifest = NoManifest
    /\ pure = NoPure
    /\ plot = NoPlot

\* What happens to the invocations in flight.
Progress ==
    \/ \E c \in CallIds : lookupRequested(c)
    \/ \E c \in CallIds : lookupThrows(c)
    \/ \E c \in CallIds : lookupOpenFails(c)
    \/ \E c \in CallIds : lookupDelivered(c)
    \/ \E c \in CallIds : lookupErrors(c)
    \/ \E c \in CallIds : arrayOpened(c)
    \/ \E c \in CallIds : arrayOpenFails(c)
    \/ \E c \in CallIds : rowFetched(c)
    \/ \E c \in CallIds : rowFetchFails(c)
    \/ \E c \in CallIds : writeOpened(c)
    \/ \E c \in CallIds : writeOpenFails(c)

\* The loader under direct loads and strain switches.
Next ==
    \/ \E s \in Strains : setStrain(s)
    \/ \E g \in Genes : loadGeneExpression(g)
    \/ Progress

Spec == Init /\ [][Next]_vars

\* The loader under direct loads made one after the other, strain switches
\* and the maintenance of the persistent cache, which runs beside them.
NextCache ==
    \/ \E s \in Strains : setStrain(s)
    \/ \E g \in Genes : loadGeneExpression(g) /\ \A d \in CallIds : ~InFlight(d)
    \/ Progress
    \/ clearCache
    \/ getCacheStats
    \/ adminRequested
    \/ adminThrows
    \/ adminOpenFails
    \/ adminDelivered
    \/ adminErrors

SpecCache == Init /\ [][NextCache]_vars

\* The two vector functions, each call of PureCalls made once.
InitPure ==
    /\ currentStrain = "AX4"
    /\ expressionStoreInstance = "none"
    /\ expressionArrayInstance = "none"
    /\ dbInstance = FALSE
    /\ cacheStore = [k \in Keys |-> NoEntry]
    /\ calls = [c \in CallIds |-> FreeCall]
    /\ lastReturned = 0
    /\ batch = FreeBatch
    /\ view = IdleView
    /\ admin = NoAdmin
    /\ manifest = NoManifest
    /\ pure \in PureCalls
    /\ plot = NoPlot

NextPure ==
    \/ aggregateGeneExpression
    \/ transformExpression

SpecPure == InitPure /\ [][NextPure]_vars

\* The state before a call drawn from the set S runs, the plot one of P.
InitCalled(S, P) ==
    /\ currentStrain = "AX4"
    /\ expressionStoreInstance = "none"
    /\ expressionArrayInstance = "none"
    /\ dbInstance = FALSE
    /\ cacheStore = [k \in Keys |-> NoEntry]
    /\ calls = [c \in CallIds |-> FreeCall]
    /\ lastReturned = 0
    /\ batch = FreeBatch
    /\ view = IdleView
    /\ admin = NoAdmin
    /\ manifest = NoManifest
    /\ pure \in S
    /\ plot \in P

\* The builders of the categorical color caches, each call of ColorCalls made
\* once.
InitColors == InitCalled(ColorCalls, {NoPlot})

NextColors == buildColorCacheOfMode

SpecColors == InitColors /\ [][NextColors]_vars

\* The tooltip of a hovered cell, each rendering of TooltipCalls made once.
InitTooltip == InitCalled(TooltipCalls, {NoPlot})

NextTooltip == renderTooltip

SpecTooltip == InitTooltip /\ [][NextTooltip]_vars

\* The plot mounted with a dataset and no color values, then given other
\* datasets, color values and color modes.
InitLegend == InitCalled({NoPure}, {effects([NoPlot EXCEPT !.data = data]) : data \in PlotDatasets})

NextLegend ==
    \/ \E data \in PlotDatasets : dataReplaced(data)
    \/ \E mode \in {"time", "cell_type"} : setColorModeOverride(mode)
    \/ \E values \in PlotValues : colorValuesChanged(values)

SpecLegend == InitLegend /\ [][NextLegend]_vars

\* The plot under pointer and wheel events and its animation frames.
NextPlot ==
    \/ \E coords \in Pointers : handleMouseDown(coords)
    \/ \E coords \in Pointers : handleMouseMove(coords)
    \/ handleMouseUp
    \/ handleMouseLeave
    \/ handleDoubleClick
    \/ \E onCanvas \in BOOLEAN : \E coords \in Pointers : \E deltaY \in Deltas :
          wheel(onCanvas, coords, deltaY)
    \/ zoomTick
    \/ hoverTick

SpecPlot == Init /\ [][NextPlot]_vars

\* The strain manifest under the invocations that read it.
NextStrains ==
    \/ \E i \in Listings : listAvailableStrains(i)
    \/ \E i \in Listings : manifestFetchThrows(i)
    \/ \E i \in Listings : \E ok \in BOOLEAN : \E body \in Bodies :
          manifestResponded(i, ok, body)
    \/ \E i \in Listings : manifestParsed(i)

SpecStrains == Init /\ [][NextStrains]_vars

\* The lists loadMultipleGenesExpression is called with.
Batches == {<<>>, <<0>>, <<0, 1>>, <<0, 0>>}

\* The loader under batch loads and strain switches.
NextBatch ==
    \/ \E s \in Strains : setStrain(s)
    \/ \E l \in Batches : loadMultipleGenesExpression(l)
    \/ Progress

SpecBatch == Init /\ [][NextBatch]_vars

\* The component under changes of what it displays and the results of its loads.
NextView ==
    \/ \E genes \in GeneLists : genesChanged(genes)
    \/ modeChanged
    \/ initialDataLoaded
    \/ \E id \in RunIds : \E F \in SUBSET Genes : loadResolves(id, F)
    \/ \E id \in RunIds : loadRejects(id)

SpecView == Init /\ [][NextView]_vars

\* The component from its mounting on, no gene displayed: the runs of
\* loadInitialData and the changes of the strain.
NextInitial ==
    \/ mounted
    \/ \E strains \in {<<"AX4">>, <<"AX4", "DH1">>} : loadStrains(strains)
    \/ \E newStrain \in Strains : handleStrainChange(newStrain)
    \/ \E id \in InitialIds : initialDataResolved(id)
    \/ \E id \in InitialIds : \E part \in Parts : initialDataRejected(id, part)

SpecInitial == Init /\ [][NextInitial]_vars

\* ================================================================ claims
\* C1: every entry of the persistent cache stored under key (strain s, gene g)
\* holds row g of the remote array of strain s, whatever the interleaving of
\* loads and strain switches.
NoCrossContamination ==
    \A k \in Keys : cacheStore[k].has => cacheStore[k].vec = Row(k[1], k[2])

\* C3: a load of gene g made right after a load of g has returned its fetched
\* row, under the same strain, is served from the cache: it neither opens the
\* remote array nor fetches a row (one fetch for the two loads), and it returns
\* the vector the first load returned.
SecondLoadFromCache ==
    \A c \in CallIds :
        calls[c].seq =>
            \/ calls[c].pc \in {"initCache", "get"}
            \/ /\ calls[c].pc = "resolved"
               /\ calls[c].source = "cache"
               /\ calls[c].result = calls[c].prev

SecondLoadServed ==
    \E c \in CallIds :
        calls[c].seq /\ calls[c].pc = "resolved" /\ calls[c].source = "cache"

\* C4: a lookup is keyed by the strain current when it is made; a load is
\* served from the cache only with the entry the store held under that strain
\* and the gene, and a load that finds none there fetches the row, whatever is
\* cached under another strain.
LookupScopedToStrain ==
    \A c \in CallIds :
        /\ calls[c].pc = "get" =>
              /\ calls[c].key = calls[c].atKey
              /\ calls[c].got = calls[c].held
        /\ (calls[c].pc = "resolved" /\ calls[c].source = "cache") =>
              /\ calls[c].held.has
              /\ calls[c].result.vec = calls[c].held.vec
        /\ (calls[c].pc \in {"openArray", "zarrGet"}
               \/ (calls[c].pc = "resolved" /\ calls[c].source = "net")) =>
              ~calls[c].held.has

MissAfterSwitch ==
    \E c \in CallIds :
        /\ calls[c].pc = "zarrGet"
        /\ calls[c].h = "DH1"
        /\ currentStrain = "DH1"
        /\ cacheStore[<<"AX4", calls[c].gene>>].has
        /\ ~cacheStore[<<"DH1", calls[c].gene>>].has

\* C9: no failure of the persistent cache makes loadGeneExpression reject.
CacheFailureNeverRejects ==
    \A c \in CallIds : calls[c].pc = "rejected" => calls[c].err /= "cache"

\* C5: setStrain never adds, removes or changes a cache entry; called with
\* another strain it sets currentStrain and resets the store and the array
\* handle; called with the current strain it changes nothing at all.
SetStrainFrame ==
    [][\A s \in Strains :
          setStrain(s) =>
              /\ cacheStore' = cacheStore
              /\ dbInstance' = dbInstance
              /\ s /= currentStrain =>
                    /\ currentStrain' = s
                    /\ expressionStoreInstance' = "none"
                    /\ expressionArrayInstance' = "none"
              /\ s = currentStrain => UNCHANGED vars]_vars

SwitchedWithEntryKept ==
    /\ currentStrain = "DH1"
    /\ expressionStoreInstance = "none"
    /\ expressionArrayInstance = "none"
    /\ \E g \in Genes : cacheStore[<<"AX4", g>>].has

\* The shapes loadGeneExpression recognizes.
Recognized == {"wrappedTyped", "bareTyped", "plainFlat", "plainNested",
               "wrappedPlain", "wrappedPlainNested"}

\* C10: a payload that is a scalar or of no recognized shape makes
\* loadGeneExpression fail with the decode error, nothing being written to the
\* cache; a payload of a recognized shape is returned as the flat vector of
\* the numbers of the row.
DecodeOutcome ==
    [][\A c \in CallIds :
          calls[c].pc = "zarrGet" =>
              LET row == Row(calls[c].h, calls[c].gene)
              IN /\ \A sh \in Shapes :
                       decode(Payload(sh, row)) =
                           IF sh \in Recognized THEN [ok |-> TRUE, vec |-> row]
                           ELSE [ok |-> FALSE, vec |-> <<>>]
                 /\ (calls'[c].pc = "rejected" /\ calls'[c].err = "decode") =>
                       /\ cacheStore' = cacheStore
                       /\ calls'[c].w = "none"
                 /\ calls'[c].pc = "resolved" =>
                       calls'[c].result = Some(row)]_vars

DecodeRejected ==
    \E c \in CallIds :
        /\ calls[c].pc = "rejected"
        /\ calls[c].err = "decode"
        /\ ~cacheStore[<<currentStrain, calls[c].gene>>].has

\* How the load of an uncached index of the batch went.
Requested == {batch.idx[i] : i \in 1 .. Len(batch.idx)}
Children(kinds) == {j \in 1 .. Len(batch.why) : batch.why[j] \in kinds}
FetchFailure == {"openArray", "fetch", "decode"}
Settled == batch.pc \in {"resolved", "rejected"}

\* C6: a batch call with distinct indices of which at least one uncached index
\* is fetched successfully resolves; its data holds exactly the indices served
\* from the cache and those fetched, its failedIndices exactly the indices whose
\* fetch failed; the two are disjoint and together are the requested indices.
BatchPartialResult ==
    (/\ Settled
     /\ Cardinality(Requested) = Len(batch.idx)
     /\ Children({"net"}) /= {}) =>
        LET inData == {g \in Genes : batch.data[g].has}
            inFailed == {batch.failed[k] : k \in 1 .. Len(batch.failed)}
        IN /\ batch.pc = "resolved"
           /\ inFailed = {batch.un[j] : j \in Children(FetchFailure)}
           /\ inData = Requested \ inFailed
           /\ inData \cap inFailed = {}
           /\ inData \cup inFailed = Requested

\* C7: a batch call rejects exactly when it has at least one uncached index and
\* the fetch of every uncached index failed, the error naming those indices; a
\* call whose indices are all cached does not reject; a call with the empty
\* list resolves with empty data and empty failedIndices.
BatchRejectsIffAllFailed ==
    Settled =>
        /\ batch.pc = "rejected" <=>
              /\ Len(batch.un) > 0
              /\ Children(FetchFailure) = 1 .. Len(batch.un)
        /\ batch.pc = "rejected" => batch.failed = batch.un
        /\ (Requested \subseteq batch.cachedAt /\ batch.quiet) => batch.pc = "resolved"
        /\ batch.idx = <<>> =>
              /\ batch.pc = "resolved"
              /\ \A g \in Genes : ~batch.data[g].has
              /\ batch.failed = <<>>

\* C8: a batch call, the storage working and the strain unchanged, goes to the
\* network once for every requested index not cached under the current strain
\* and not at all for a cached one, and its data holds the cached rows too.
BatchFetchesUncachedOnce ==
    (Settled /\ batch.quiet) =>
        \A g \in Genes :
            /\ Cardinality({j \in Children(FetchFailure \cup {"net"}) : batch.un[j] = g})
                  = IF g \in Requested \ batch.cachedAt THEN 1 ELSE 0
            /\ g \in Requested \cap batch.cachedAt => batch.data[g].has

\* What the component displays of gene expression.
Displayed(v) ==
    <<v.colorValues, v.geneExpressionData, v.loadingGeneExpression, v.warned, v.errored>>

\* The result of the load of request id arrives, another request being the
\* latest: nothing displayed changes.
StaleChangesNothing ==
    \A id \in RunIds :
        (view.loads[id].st = "pending" /\ view'.loads[id].st = "done" /\ id /= view.ref) =>
            Displayed(view') = Displayed(view)

\* C2 as stated: every run of the gene-expression effect takes a fresh,
\* strictly larger request id, and a result arriving for a request that is no
\* longer the latest changes nothing displayed.
EveryRunFenced ==
    [][/\ view'.runs /= view.runs =>
             /\ view'.ref = view.ref + 1
             /\ \A id \in RunIds : view.loads[id].st /= "none" => id < view'.ref
       /\ StaleChangesNothing]_vars

\* C2: every run of the gene-expression effect that finds the dataset info
\* loaded takes a fresh, strictly larger request id, a run that does not takes
\* none and changes nothing displayed; a result arriving for a request that is
\* no longer the latest changes nothing displayed: colorValues,
\* geneExpressionData, the loading flag, the warnings and the error
\* notifications stay as they are.
RequestFencing ==
    [][/\ (view'.runs /= view.runs /\ view'.datasetInfo) =>
             /\ view'.ref = view.ref + 1
             /\ \A id \in RunIds : view.loads[id].st /= "none" => id < view'.ref
       /\ (view'.runs /= view.runs /\ ~view'.datasetInfo) =>
             /\ view'.ref = view.ref
             /\ Displayed(view') = Displayed(view)
       /\ StaleChangesNothing]_vars

StaleResultDiscarded ==
    \E id \in RunIds :
        /\ view.loads[id].st = "done"
        /\ id < view.ref
        /\ view.loads[view.ref].st = "pending"
        /\ view.loadingGeneExpression
        /\ ~view.colorValues.def

\* C11 as stated: a decode error is propagated to the caller on every loading
\* path: a batch call one of whose loads met an unrecognized payload rejects.
DecodeErrorRejectsBatch ==
    (Settled /\ Children({"decode"}) /= {}) => batch.pc = "rejected"

\* C11: a decode error is never replaced by a default nor dropped: the load
\* that met it rejects; a batch call reports its index in failedIndices, rejects
\* when the loads of all its uncached indices failed, and holds in data only
\* rows read from the cache or fetched, of full length.
DecodeErrorSurfaced ==
    /\ \A c \in CallIds :
          (calls[c].pc = "rejected" /\ calls[c].err = "decode") => ~calls[c].result.has
    /\ Settled =>
          /\ \A j \in Children({"decode"}) :
                \E k \in 1 .. Len(batch.failed) : batch.failed[k] = batch.un[j]
          /\ Children(FetchFailure \cup {"cache-error"}) = 1 .. Len(batch.un)
                => (batch.un = <<>> \/ batch.pc = "rejected")
          /\ \A g \in Genes :
                batch.data[g].has => \E st \in Strains : batch.data[g].vec = Row(st, g)

DecodeErrorInPartialResult ==
    /\ batch.pc = "resolved"
    /\ Children({"decode"}) /= {}
    /\ Children({"net"}) /= {}


\* C12: no invocation of clearCache or getCacheStats ever rejects, whatever
\* the persistent storage does (the open failing, the transaction throwing,
\* the request failing).
MaintenanceNeverRejects == admin.pc /= "rejected"

\* C13, as stated: once a clearCache has resolved, and until a load writes a
\* fetched row again, the persistent cache holds no entry of any strain (so
\* that getCacheStats counts 0 and every lookup misses).
EmptyOnceClearResolved ==
    admin.quiet => \A k \in Keys : ~cacheStore[k].has

\* C13, amended: a count request of getCacheStats that succeeds counts the
\* entries of all the strains together, and getCacheStats resolves with that
\* number; from the moment a clear request of clearCache succeeds, and until a
\* load writes a fetched row again, the cache holds no entry of any strain and
\* every lookup of a load misses.
StatsCountAndClear ==
    [][ /\ admin'.cleared => \A k \in Keys : ~cacheStore'[k].has
        /\ (admin.op = "stats" /\ admin.pc = "initCache" /\ admin'.pc = "request"
              /\ admin'.will = "success")
             => admin'.count = Cardinality({k \in Keys : cacheStore[k].has})
        /\ (admin.op = "stats" /\ admin.pc = "request" /\ admin.will = "success"
              /\ admin'.pc = "resolved")
             => admin'.result = admin.count
        /\ \A c \in CallIds :
              (calls[c].pc = "initCache" /\ calls'[c].pc = "get" /\ admin.cleared)
                 => ~calls'[c].got.has ]_vars

\* C13 happens: a load has written its row, a clear request has then emptied
\* the store, and a count request made after it has counted nothing.
CountedNothingAfterClear ==
    /\ admin.cleared
    /\ admin.op = "stats"
    /\ admin.pc = "request"
    /\ admin.will = "success"
    /\ admin.count = 0
    /\ lastReturned /= 0
    /\ calls[lastReturned].w = "stored"


\* C14: listAvailableStrains never rejects; it resolves with ['AX4'] when the
\* request threw, the status was not a success or the payload was malformed
\* (not JSON, or JSON that is not a list of strain names), and with the list
\* of the manifest otherwise.
StrainListOrDefault ==
    \A i \in Listings :
       /\ manifest[i].pc /= "rejected"
       /\ manifest[i].pc = "resolved" =>
             /\ manifest[i].result.kind = "list"
             /\ manifest[i].result \in {manifest[i].body, DefaultStrains}


\* The sum of f over the finite set D.
RECURSIVE Total(_, _)
Total(f, D) ==
    IF D = {} THEN 0
    ELSE LET k == CHOOSE j \in D : TRUE IN f[k] + Total(f, D \ {k})

\* C15: for an empty list aggregateGeneExpression returns a vector of length 0
\* in every mode; for a non-empty list of vectors of equal length it returns
\* a vector of that length whose cell i is the sum, the sum divided by the
\* number of vectors, the least or the greatest of the vectors' cells i,
\* according to the mode; the vectors given are as they were.
AggregateIsReduction ==
    (pure.pc = "returned" /\ pure.op = "aggregate") =>
       LET E == pure.given
           n == Len(E)
       IN /\ pure.args = pure.given
          /\ n = 0 => pure.result = <<>>
          /\ n > 0 =>
                /\ Len(pure.result) = Len(E[1])
                /\ \A i \in 1 .. Len(E[1]) :
                      LET S == Total([k \in 1 .. n |-> E[k][i]], 1 .. n)
                          r == pure.result[i]
                      IN /\ ~r.ln
                         /\ r.den > 0
                         /\ pure.mode = "sum" => r.num = S * r.den
                         /\ pure.mode = "average" => r.num * n = S * r.den
                         /\ pure.mode = "min" =>
                               /\ r.den = 1
                               /\ \E k \in 1 .. n : E[k][i] = r.num
                               /\ \A k \in 1 .. n : r.num <= E[k][i]
                         /\ pure.mode = "max" =>
                               /\ r.den = 1
                               /\ \E k \in 1 .. n : E[k][i] = r.num
                               /\ \A k \in 1 .. n : r.num >= E[k][i]

\* C15 happens: the average of several vectors has a cell that is not a whole
\* number.
AveragedToFraction ==
    /\ pure.pc = "returned"
    /\ pure.op = "aggregate"
    /\ pure.mode = "average"
    /\ Len(pure.given) > 1
    /\ \E i \in 1 .. Len(pure.result) : pure.result[i].den > 1

\* C16: transformExpression returns a vector of the length of the one given
\* and leaves that one as it was; in mode linear every cell is the cell given,
\* in mode log1p a negative cell gives 0, 0 gives 0 and a cell v >= 0 gives
\* ln(1 + v).
TransformIsElementwise ==
    (pure.pc = "returned" /\ pure.op = "transform") =>
       LET e == pure.given[1]
       IN /\ pure.args = pure.given
          /\ Len(pure.result) = Len(e)
          /\ \A i \in 1 .. Len(e) :
                LET r == pure.result[i]
                    zero == [num |-> 0, den |-> 1, ln |-> FALSE]
                IN /\ pure.mode = "linear" => r = [num |-> e[i], den |-> 1, ln |-> FALSE]
                   /\ pure.mode = "log1p" =>
                         /\ e[i] < 0 => r = zero
                         /\ e[i] = 0 => r = zero
                         /\ e[i] > 0 => r = [num |-> 1 + e[i], den |-> 1, ln |-> TRUE]

\* C16 happens: a vector with a negative and a positive cell went through log1p.
Log1pOfMixedSigns ==
    /\ pure.pc = "returned"
    /\ pure.op = "transform"
    /\ pure.mode = "log1p"
    /\ \E i \in 1 .. Len(pure.given[1]) : pure.given[1][i] < 0
    /\ \E i \in 1 .. Len(pure.given[1]) : pure.given[1][i] > 0


\* C17: whatever the transform that pans and zooms have led to, right after a
\* reset (a double click or the Reset View control) the view transform is
\* {scale: 1, offsetX: 0, offsetY: 0}.
ResetYieldsIdentity ==
    plot.last = "reset" =>
       /\ plot.transformRef.scale = [num |-> 1, den |-> 1, ln |-> FALSE]
       /\ plot.transformRef.offsetX = [num |-> 0, den |-> 1, ln |-> FALSE]
       /\ plot.transformRef.offsetY = [num |-> 0, den |-> 1, ln |-> FALSE]

\* C17 happens: a reset has been made from a view both zoomed and panned.
ResetFromZoomedAndPanned ==
    /\ plot.last = "reset"
    /\ plot.before.scale.num /= plot.before.scale.den
    /\ plot.before.offsetX.num /= 0
    /\ plot.before.offsetY.num /= 0

\* C18: after any sequence of wheel events and zoom ticks, the scale times the
\* ratio of what waits in the accumulator is the starting scale (1) times
\* exp(-0.0015 * the sum of the deltaY of all the wheel events): no delta is
\* lost and none is counted twice.
WheelDeltasApplied ==
    plot.wheelOnly =>
       Times(plot.transformRef.scale, MathExp(plot.wheelAccumRef)) = MathExp(plot.sum)

\* The position before the transform t of the point that t shows at pixel.
BaseAt(pixel, t) ==
    <<Plus(Over(Minus(Minus(Whole(pixel[1]), Number(Width, 2)), t.offsetX), t.scale),
           Number(Width, 2)),
      Plus(Over(Minus(Minus(Whole(pixel[2]), Number(Height, 2)), t.offsetY), t.scale),
           Number(Height, 2))>>

\* C19: when a tick applies a zoom, the point that was shown under the pointer
\* of each wheel event it stands for is shown at that same pixel after it.
ZoomKeepsPointerFixed ==
    plot.last = "zoom" =>
       \A pixel \in plot.merged :
          Screen(BaseAt(pixel, plot.before), plot.transformRef)
             = <<Whole(pixel[1]), Whole(pixel[2])>>

\* C20: a move of a drag leaves the scale as it was right before the move,
\* whatever zoom ticks have come between the moves of the drag.
PanKeepsScale ==
    plot.last = "pan" => plot.transformRef.scale = plot.before.scale


\* C21: in every reachable state in which the renderer is dragging, no point
\* is hovered.
NoHoverWhileDragging ==
    plot.isDragging => plot.hoveredPointRef = 0

HoverDistance(i) ==
    d2(Screen(<<Whole(BasePoints[i][1]), Whole(BasePoints[i][2])>>, plot.transformRef),
       plot.hoverCoords)

Permuted(data, p) == [i \in 1 .. Len(data) |-> data[p[i]]]

\* The permutations of 1 .. n.
Rearrangements(n) ==
    {p \in [1 .. n -> 1 .. n] : \A i, j \in 1 .. n : p[i] = p[j] => i = j}

\* C24: in the color cache of a categorical mode a row of a null category has
\* the zero color and a row of category c has the palette color at index
\* (number of distinct non-null categories of the dataset before c in the
\* sorted order) modulo the palette length; so the rows of whatever
\* permutation of the dataset get the colors they have in the dataset itself.
CategoryColorByRank ==
    (pure.pc = "returned" /\ pure.op = "colors") =>
       LET data == pure.given
           n == Len(data)
           palette == IF pure.mode = "time" THEN TIME_COLORS ELSE CELL_TYPE_COLORS
           cat(row) == IF pure.mode = "time" THEN row.time ELSE row.cell_type
           present == {cat(data[i]).v : i \in {j \in 1 .. n : cat(data[j]).has}}
           rank(c) == Cardinality({b \in present : Order(b) < Order(c)})
           build(d) == IF pure.mode = "time" THEN buildTimeColorCache(d)
                       ELSE buildCellTypeColorCache(d)
       IN /\ Len(pure.result) = n
          /\ \A i \in 1 .. n :
                pure.result[i] = IF cat(data[i]).has
                                 THEN palette[(rank(cat(data[i]).v) % Len(palette)) + 1]
                                 ELSE ZERO_COLOR
          /\ \A p \in Rearrangements(n) :
                \A i \in 1 .. n : build(Permuted(data, p))[i] = pure.result[p[i]]

\* C24 happens: a dataset with more cell types than the palette has colors,
\* not in sorted order, and a row without a cell type.
ColoredPastThePalette ==
    /\ pure.pc = "returned"
    /\ pure.op = "colors"
    /\ pure.mode = "cell_type"
    /\ Len(pure.given) = 3
    /\ pure.given[1].cell_type = Present("Type C")
    /\ pure.given[2].cell_type = Present("Type B")
    /\ pure.given[3].cell_type = Present("Type A")
    /\ pure.result[1] = pure.result[3]


\* The legend on screen: the items of the current color mode when there are
\* any, none otherwise.
LegendShown ==
    IF plot.colorModeOverride = "cell_type" THEN plot.cellTypeLegendItems
    ELSE plot.timeLegendItems

\* The category of a row under the current color mode.
CategoryNow(row) ==
    IF plot.colorModeOverride = "cell_type" THEN row.cell_type ELSE row.time

ContinuousColorEncoding ==
    plot.colorValues.has =>
       LET values == plot.colorValues.vec
           finite == {values[i] : i \in {j \in 1 .. Len(values) : isFinite(values[j])}}
           legendMax == IF \E v \in finite : v > 0
                        THEN CHOOSE v \in finite : \A w \in finite : w <= v
                        ELSE 1
           value(i) == IF i <= Len(values) THEN values[i] ELSE 0
       IN /\ plot.legendMaxRef = legendMax
          /\ Len(plot.colorCacheRef) = Len(plot.data)
          /\ \A i \in 1 .. Len(plot.data) :
                plot.colorCacheRef[i] =
                   IF value(i) <= 0 THEN ZERO_COLOR
                   ELSE genesColor(Number(value(i), legendMax))


\* One listed or loaded gene comes strictly before another in the order of the
\* tooltip: a positive value before none, the greater positive value first,
\* and among the others the symbol that is first in the alphabet.
Precedes(a, b) ==
    \/ a.value > 0 /\ b.value <= 0
    \/ a.value > 0 /\ b.value > 0 /\ a.value > b.value
    \/ a.value <= 0 /\ b.value <= 0 /\ localeCompare(a.symbol, b.symbol) < 0

\* C27: the tooltip lists min(5, loaded) of the loaded genes with their values
\* at the hovered cell, no gene twice; the listed genes are in the order
\* positive values descending, then the others by symbol, and no gene left out
\* comes before a listed one in that order; "..." is shown exactly when more
\* than 5 genes are loaded.
TooltipComposition ==
    (pure.pc = "returned" /\ pure.op = "tooltip") =>
       LET genes == pure.given
           n == Len(genes)
           cellId == IF pure.mode = "0" THEN 0 ELSE 1
           candidates == {[name |-> genes[i].geneName, symbol |-> genes[i].geneSymbol,
                       value |-> genes[i].expression[cellId + 1]] : i \in 1 .. n}
           listed == pure.result.displayGenes
           m == Len(listed)
       IN /\ m = IF n < 5 THEN n ELSE 5
          /\ \A k \in 1 .. m : listed[k] \in candidates
          /\ \A k, j \in 1 .. m : listed[k].name = listed[j].name => k = j
          /\ \A k, j \in 1 .. m : k < j => ~Precedes(listed[j], listed[k])
          /\ \A g \in candidates :
                (\A k \in 1 .. m : listed[k] /= g) => \A k \in 1 .. m : ~Precedes(g, listed[k])
          /\ pure.result.dots <=> n > 5

\* C27 happens: six genes are loaded, three of them with a positive value at
\* the hovered cell and given after the others; the tooltip lists five, the
\* three first, and "...".
TooltipTruncated ==
    /\ pure.pc = "returned"
    /\ pure.op = "tooltip"
    /\ pure.mode = "0"
    /\ Len(pure.given) = 6
    /\ pure.given[1].expression[1] <= 0
    /\ pure.given[6].expression[1] = 3
    /\ Len(pure.result.displayGenes) = 5
    /\ pure.result.displayGenes[1].value = 3
    /\ pure.result.displayGenes[3].value > 0
    /\ pure.result.displayGenes[4].value <= 0
    /\ pure.result.dots


\* C28: when a run of loadInitialData ends with one of its seven requests
\* failed, the component shows 'Failed to load single-cell data. Please check
\* the data files.', one fetch-ended action is dispatched, and the points, the
\* gene names, the gene symbols and the dataset info stay as they were; no
\* state ever holds data of a run that failed.
MetadataAllOrNothing ==
    [][\A id \in InitialIds :
          /\ (view.initial.loads[id].st = "pending" /\ view'.initial.loads[id].st = "rejected")
                => /\ view'.initial.loads[id].failed \in Parts
                   /\ view'.initial.error = FailedToLoad
                   /\ rendered(view') = "error"
                   /\ view'.initial.ended = view.initial.ended + 1
                   /\ view'.initial.umapCoordinates = view.initial.umapCoordinates
                   /\ view'.initial.geneNames = view.initial.geneNames
                   /\ view'.initial.geneSymbols = view.initial.geneSymbols
                   /\ view'.initial.datasetInfo = view.initial.datasetInfo
                   /\ view'.datasetInfo = view.datasetInfo
          /\ view'.initial.loads[id].st = "rejected"
                => id \notin {view'.initial.umapCoordinates, view'.initial.geneNames,
                              view'.initial.geneSymbols, view'.initial.datasetInfo}]_vars

\* C28 happens: a run failed on its last request after an earlier run had
\* loaded everything; the error is shown and the data of the earlier run is
\* held.
FailedAfterLoaded ==
    \E id \in InitialIds :
       /\ view.initial.loads[id].st = "rejected"
       /\ view.initial.loads[id].failed = "loadDatasetInfo"
       /\ view.initial.error = FailedToLoad
       /\ view.initial.umapCoordinates \notin {0, id}
       /\ view.initial.datasetInfo = view.initial.umapCoordinates
       /\ view.initial.started = view.initial.ended

\* C29: from the error state the strain can be changed (where more strains
\* than one are available).
StrainChangeFromErrorState ==
    (view.initial.error /= "null" /\ Len(view.initial.availableStrains) > 1)
       => \E newStrain \in Strains : selectable(view, newStrain)


\* C30: when the load of the latest request is rejected, the error 'Error
\* loading single cell gene expression data.' is dispatched once, colorValues
\* becomes undefined and geneExpressionData empty, the loading flag is reset
\* and one fetch-ended action is dispatched.
LatestFailureResets ==
    [][\A requestId \in RunIds :
          (requestId \notin view.rejected /\ requestId \in view'.rejected
             /\ requestId = view.ref)
             => /\ view'.errors = view.errors + 1
                /\ view'.errored = view.errored \cup {requestId}
                /\ view'.colorValues = Undefined
                /\ view'.geneExpressionData = <<>>
                /\ ~view'.loadingGeneExpression
                /\ view'.fetching = view.fetching - 1]_vars

\* C30 happens: the load of the latest request was rejected and its error
\* dispatched, after the load of an earlier request had been rejected without
\* one.
LatestFailedAfterStale ==
    /\ view.ref \in view.rejected
    /\ view.ref \in view.errored
    /\ view.errors = 1
    /\ \E requestId \in RunIds : requestId < view.ref /\ requestId \in view.rejected
    /\ view.colorValues = Undefined
    /\ ~view.loadingGeneExpression
    /\ view.fetching = 0


\* C31: a load of gene expressions is started only by a run of the effect
\* with the dataset info loaded and at least one gene to display that is among
\* the gene names; and whenever no gene to display is among the gene names
\* (the list is empty or has only unknown genes), no load has been started for
\* the latest request, colorValues is undefined, geneExpressionData is empty
\* and the loading flag is false.
LoadOnlyForKnownGenes ==
    [][/\ \A requestId \in RunIds :
             (view.loads[requestId].st = "none" /\ view'.loads[requestId].st /= "none")
                => /\ view'.datasetInfo
                   /\ \E i \in 1 .. Len(view'.genesToDisplay) : view'.genesToDisplay[i] \in Genes
                   /\ \A i \in 1 .. Len(view'.loads[requestId].idx) :
                         view'.loads[requestId].idx[i] \in Genes
       /\ (\A i \in 1 .. Len(view'.genesToDisplay) : view'.genesToDisplay[i] \notin Genes)
             => /\ \A requestId \in RunIds :
                      requestId = view'.ref => view'.loads[requestId].st = "none"
                /\ view'.colorValues = Undefined
                /\ view'.geneExpressionData = <<>>
                /\ ~view'.loadingGeneExpression]_vars

\* C31 happens: a load was under way when the genes to display became a gene
\* that is not among the gene names; no load was started for that request, and
\* after the end of the earlier load nothing is displayed.
UnknownGeneAfterLoadStarted ==
    /\ view.datasetInfo
    /\ view.genesToDisplay = <<9>>
    /\ view.ref = 2
    /\ view.loads[1].st = "done"
    /\ 1 \notin view.rejected
    /\ view.loads[2].st = "none"
    /\ view.colorValues = Undefined
    /\ view.geneExpressionData = <<>>
    /\ ~view.loadingGeneExpression


\* C32: whenever the shared array handle is set, it was opened from the array
\* of the current strain.
HandleOfCurrentStrain ==
    expressionArrayInstance /= "none" => expressionArrayInstance = currentStrain


DisplayFollowsSelectedStrain ==
    (/\ view.initial.started > 0
     /\ \A id \in InitialIds :
           id <= view.initial.started => view.initial.loads[id].st = "resolved")
       => \A held \in {view.initial.umapCoordinates, view.initial.geneNames,
                       view.initial.geneSymbols, view.initial.datasetInfo} :
             /\ held \in InitialIds
             /\ view.initial.loads[held].strain = view.initial.selectedStrain

\* C35: when the load of the latest request resolves, colorValues is the
\* aggregate, by the current aggregation mode and transformed by the current
\* transform mode, of the rows of the genes to display that were loaded, and
\* geneExpressionData holds one entry, transformed by the current transform
\* mode, for each of those genes in the order of the genes to display; when the
\* load of an older request resolves or is rejected, neither changes.
DisplayOfLatestRequest ==
    [][\A id \in RunIds :
          (view.loads[id].st = "pending" /\ view'.loads[id].st = "done") =>
              IF id /= view.ref
              THEN /\ view'.colorValues = view.colorValues
                   /\ view'.geneExpressionData = view.geneExpressionData
              ELSE id \notin view'.rejected =>
                     LET loadedGenes == view'.colorValues.val
                         inOrder == SelectSeq(view.genesToDisplay,
                                              LAMBDA g : g \in loadedGenes)
                     IN /\ view'.colorValues.def
                        /\ loadedGenes /= {}
                        /\ view'.colorValues.aggregationMode = view.aggregationMode
                        /\ view'.colorValues.transformMode = view.transformMode
                        /\ view'.geneExpressionData =
                               [i \in 1 .. Len(inOrder) |->
                                   [gene |-> inOrder[i],
                                    transformMode |-> view.transformMode]]]_vars

\* The latest of three requests, made after the aggregation mode was set to
\* sum, has resolved with the row of gene 1 only, after the request before it
\* had resolved.
LatestShownAfterModeChange ==
    /\ view.ref = 3
    /\ view.loads[2].st = "done"
    /\ view.loads[3].st = "done"
    /\ view.rejected = {}
    /\ view.genesToDisplay = <<0, 1>>
    /\ view.aggregationMode = "sum"
    /\ view.colorValues = [def |-> TRUE, val |-> {1}, aggregationMode |-> "sum",
                           transformMode |-> "log1p"]
    /\ view.geneExpressionData = <<[gene |-> 1, transformMode |-> "log1p"]>>
    /\ 3 \in view.warned

\* C36: loadingGeneExpression is true exactly while the load of the latest
\* request is in flight: it is false before the first request and once the
\* latest request has settled, whether its load resolved or was rejected or it
\* had nothing to load.
LoadingFlagFollowsLatest ==
    view.loadingGeneExpression <=>
        (view.ref > 0 /\ view.loads[view.ref].st = "pending")

\* The load of the second request has settled while the third request is the
\* latest and its load in flight: the flag is still set.
LatestInFlightAfterOlderSettled ==
    /\ view.ref = 3
    /\ view.loads[2].st = "done"
    /\ view.loads[3].st = "pending"
    /\ view.loadingGeneExpression

\* C37: whenever a load of the metadata of a strain or the load of the latest
\* gene-expression request is in flight, isFetchingSingleCellExpressions is
\* true.
IndicatorCoversLoadsInFlight ==
    (\/ view.ref > 0 /\ view.loads[view.ref].st = "pending"
     \/ \E id \in InitialIds : view.initial.loads[id].st = "pending")
        => view.isFetchingSingleCellExpressions

\* C38: whenever a point is hovered, the screen position stored for it is the
\* projection of the point under the current view transform.
HoveredPositionCurrent ==
    plot.hoveredPointRef /= 0 =>
        plot.hoveredScreen =
            Screen(<<Whole(BasePoints[plot.hoveredPointRef][1]),
                     Whole(BasePoints[plot.hoveredPointRef][2])>>, plot.transformRef)

\* C39: after a reset the view transform stays {scale: 1, offsetX: 0,
\* offsetY: 0} until a wheel event or an event of a drag happens after it.
ResetHolds ==
    plot.sinceReset => plot.transformRef = Identity
====
